---- MODULE Spec2Model ----
(***************************************************************************)
(* jarvis-ear: the capture state machine (state_machine.py), the decision   *)
(* loop (__main__.py), the TTS player (speaker.py), the pre-roll ring       *)
(* buffer (ring_buffer.py) and the audio capture thread (audio.py).         *)
(*                                                                         *)
(* Time.  The code reads time.monotonic() and only ever uses a stored      *)
(* timestamp t in a difference  time.monotonic() - t  (or in a test        *)
(* against None).  Every timestamp field is therefore kept as that         *)
(* difference, its age: storing time.monotonic() stores age 0, a clock     *)
(* tick ages every stored timestamp, and an age stops growing one step     *)
(* above the timeout it is compared with (beyond it every comparison of    *)
(* the code has the same outcome).  One call of a handler reads the clock  *)
(* at one instant.                                                         *)
(*                                                                         *)
(* Bytes.  A bytes value is a sequence of small integers; b"".join is the  *)
(* concatenation of such sequences.                                        *)
(***************************************************************************)
EXTENDS Integers, Sequences, FiniteSets, Bags, TLC

VARIABLES
    \* CaptureStateMachine fields (state_machine.py:49-55)
    state,                \* _state
    capture_buffer,       \* _capture_buffer: list of bytes
    last_speech_time,     \* age of _last_speech_time
    capture_start_time,   \* age of _capture_start_time
    conversation_start,   \* age of _conversation_start
    \* observation of the calls made on the state machine
    ev,                   \* the last call: [op, arg]
    ret,                  \* its return value: <<>> for None, <<b>> for bytes b
    fed,                  \* bytes handed to the machine since the capture began
    abandoned,            \* a capture was left unfinalized with frames buffered
    \* AudioPlayer fields (speaker.py:60-102)
    queue,                \* _queue: PriorityQueue of (index, bytes, content_type)
    playing,              \* _playing
    stop_event,           \* _stop_event
    mic_muted_at,         \* age of _mic_muted_at, or None
    mixer,                \* the last Dmic0 command the mixer received
    \* AudioPlayer._playback_loop locals and position
    next_index,
    pending,
    item,
    pc,
    \* AudioPlayer.stop position (the caller's thread)
    stop_pc,
    \* observation of the player
    written,              \* chunk indices written to the device since the cursor reset
    dropped,              \* chunk indices passed without a write since the cursor reset
    unmutes,              \* number of unmute commands issued
    last_unmute_by,       \* who issued the last one
    sentinels,            \* number of sentinels processed
    n_enq,                \* number of items put on the queue
    sent,                 \* the enqueuing thread's progress in one TTS session
    \* observation of the decision loop (__main__.py)
    tts_done_age,         \* age of the last voice:tts_done no speech frame has
                          \* followed yet, or None
    \* the wake word detector (wakeword.py), as the decision loop drives it
    ww_history,           \* the model holds frames fed since its last reset
    ww_call,              \* what the last iteration called on the detector
    loop_pc,              \* where the decision loop stands in its iteration
    \* RingBuffer fields (ring_buffer.py:27-28)
    ring,                 \* _buffer: deque of frames, oldest first
    ring_lock,            \* _lock: "free" or the thread holding it
    \* AudioCapture fields and _capture_loop locals (audio.py:54-58, 138-140)
    frame_queue,          \* _queue: FIFO of frames, oldest first
    accumulator,
    drop_count,
    cap_frame,            \* frame: the frame being emitted
    cap_pc,               \* position of the capture thread
    \* the consumer thread: its position and the bytes drain() is returning
    cons_pc,
    drain_data,
    \* observation of the capture side
    n_read,               \* bytes the device has delivered
    emitted,              \* frames sliced off the accumulator, in order
    appended,             \* frames appended to the ring, in order
    since,                \* how many of them since the last drain or clear
    gone,                 \* frames evicted by an append or discarded by clear
    returned,             \* the bytes returned by all drains, in order
    delivered,            \* frames returned by get_frame, in order
    \* BackendClient fields (backend.py:65-88)
    connected,            \* _connected
    token,                \* _token: None, or the number of the login that gave it
    token_acquired_at,    \* age of _token_acquired_at
    lock,                 \* _lock: "free" or the thread holding it
    reconnect_count,      \* _reconnect_count
    link,                 \* the Socket.IO client: the /voice namespace is connected
    \* the threads in main() and in BackendClient
    bpc,                  \* position of each thread
    tok_now,              \* _get_token's local now, as an age, or None
    captured_audio,       \* send_audio's argument
    \* observation of the backend client
    attempt,              \* the connection attempt of startup
    fetch_log,            \* the login requests made, in order
    wire,                 \* the events emit has accepted, in order
    handed,               \* the utterances handed to send_audio, in order
    reported,             \* the calls logged as sent
    refused,              \* the calls that dropped their utterance
    \* CaptureStateMachine under two threads
    frame_pc,             \* position of the decision thread inside on_frame
    tts_pc,               \* position of the callback thread inside on_tts_done
    frame_args,           \* on_frame's arguments
    joined,               \* on_frame's local audio
    \* observation of a pair of calls that overlap
    snap,                 \* the fields before the first of the two began
    overlap,              \* both calls were under way at once
    outcome,              \* the fields and the return value when both returned
    \* AudioPlayer.play_chime on its caller's thread
    chime_k,              \* periods of the chime written so far by this call
    chime_log,            \* per period of the chime: what the playback thread
                          \* had written to the device by then
    n_chimes,             \* number of calls that have returned
    \* observation of on_playback_done
    callbacks,            \* number of times it was invoked
    cb_raised,            \* whether its last invocation raised
    \* AudioCapture thread control (audio.py:61-68) and _capture_loop locals
    cap_stop_event,       \* _stop_event
    cap_started,          \* _started
    overrun_count,
    cap_reading,          \* the capture thread is inside self._pcm.read()
    cap_stop_pc,          \* position of the thread calling AudioCapture.stop
    \* observation of the capture thread
    read_result,          \* how the last device read ended
    \* main()'s shutdown (__main__.py:71-79, 155-163)
    shutdown,             \* the flag handle_signal sets
    exit_code,            \* None, or the argument of sys.exit
    shutdown_event,       \* BackendClient._shutdown_event
    \* observation of main()'s finally block
    teardown,             \* the calls it has made, in order
    \* BackendClient's health monitor (backend.py:75-79, 244-282)
    health_pc,            \* position of the health thread
    last_pong_time,       \* age of _last_pong_time, None for its initial 0.0
    since_tick,           \* time the health thread has spent in its wait
    \* observation of the health monitor
    ticks,                \* number of waits that timed out
    pings,                \* number of voice:ping emits
    tick_connected,       \* _connected as the last tick read it
    tick_warned,          \* whether the last tick logged the stale warning
    \* the display daemon (display_daemon.py:41-54)
    display_mode,         \* state["mode"]
    display_hud_state,    \* state["hud_state"], "None" for None
    mpv_window_ids,       \* state["mpv_window_ids"], as a set
    chromium_url,         \* state["chromium_url"], "None" for None
    chromium_proc,        \* _chromium_proc: "None", or the process "running" or "dead"
    current_hud_state,    \* _current_hud_state
    \* the screen, and the answer to the last request
    mpv_visible,          \* the mpv windows that are mapped
    response,             \* HTTP status of the last request, 0 before the first
    xdotool_failed        \* some xdotool command has timed out

sm_vars == <<state, capture_buffer, last_speech_time, capture_start_time,
             conversation_start, ev, ret, fed, abandoned>>

player_vars == <<queue, playing, stop_event, mic_muted_at, mixer, next_index,
                 pending, item, pc, stop_pc, written, dropped, unmutes,
                 last_unmute_by, sentinels, n_enq, sent>>

verdict_vars == <<tts_done_age, ww_history, ww_call>>
main_vars == <<tts_done_age, ww_history, ww_call, loop_pc>>

capture_vars == <<ring, ring_lock, frame_queue, accumulator, drop_count,
                  cap_frame, cap_pc, cons_pc, drain_data, n_read, emitted,
                  appended, since, gone, returned, delivered>>

backend_vars == <<connected, token, token_acquired_at, lock, reconnect_count,
                  link, bpc, tok_now, captured_audio, attempt, fetch_log, wire,
                  handed, reported, refused>>

race_vars == <<frame_pc, tts_pc, frame_args, joined, snap, overlap, outcome>>

chime_vars == <<chime_k, chime_log, n_chimes>>

cb_vars == <<callbacks, cb_raised>>

loop_vars == <<cap_stop_event, cap_started, overrun_count, cap_reading,
               cap_stop_pc, read_result>>

shutdown_vars == <<shutdown, exit_code, shutdown_event, teardown>>

health_vars == <<health_pc, last_pong_time, since_tick, ticks, pings,
                 tick_connected, tick_warned>>

display_vars == <<display_mode, display_hud_state, mpv_window_ids, chromium_url,
                  chromium_proc, current_hud_state, mpv_visible, response,
                  xdotool_failed>>

aux_vars == <<loop_vars, shutdown_vars, health_vars, display_vars>>

vars == <<sm_vars, player_vars, main_vars, capture_vars, backend_vars, race_vars,
          chime_vars, cb_vars, aux_vars>>

----------------------------------------------------------------------------
(* Bounds of the model *)

\* on_frame calls modelled within one capture
MaxCapture == 3
\* items put on the player queue in one run
MaxEnq == 3
\* largest chunk index enqueued when chunks arrive freely
MaxIdx == 1
\* largest number of chunks of the single well-formed TTS session
MaxChunks == 3
\* seconds per tick of the player's clock
ClockStep == 40
\* frames the capture thread emits in one run
MaxEmit == 4
\* largest number of bytes one device read returns
MaxRead == 3
\* overruns the device signals in one run
MaxOverruns == 1
\* the sizes of the capture side, scaled down: config.PREROLL_FRAMES is 15,
\* the queue's maxsize 100 and _TARGET_FRAME_BYTES 1024
PREROLL_FRAMES == 2
QUEUE_MAXSIZE == 2
TARGET_FRAME_BYTES == 2

\* connections the backend accepts; utterances handed to send_audio
MaxConnects == 2

MaxUtterances == 2

\* calls of play_chime; periods the chime's PCM fills
MaxChimes == 1

ChimePeriods == 2

\* seconds between two readings of time.time()
TokenClockStep == 259200

\* seconds per tick of the health monitor's clock; waits that time out
HealthStep == 30

MaxTicks == 3

----------------------------------------------------------------------------
(* Program constants *)

SILENCE_TIMEOUT_S == 2
CONVERSATION_TIMEOUT_S == 15
MIC_MUTE_SAFETY_TIMEOUT_S == 60
\* Python's None, for a field that otherwise holds a number
None == -1

\* backend.py:36: 6 * 24 * 3600
TOKEN_REFRESH_S == 518400

\* config.py:36-37
BACKEND_PING_INTERVAL_S == 60
BACKEND_PING_TIMEOUT_S == 120

----------------------------------------------------------------------------
(* Helpers *)

Min(a, b) == IF a < b THEN a ELSE b

\* b"".join(list)
RECURSIVE Join(_)
Join(list) ==
    IF list = <<>> THEN <<>> ELSE Head(list) \o Join(Tail(list))

\* one second passes for a stored timestamp compared with `timeout`
Aged(age, timeout) == Min(age + 1, timeout + 1)

\* frames (bytes) the decision loop may pass; pre-rolls drain_preroll may return
Frames == {<<1>>, <<2>>}

Prerolls == {<<>>, <<7, 8>>}

\* the frame the decision loop passes on: its verdicts, not its bytes, decide
\* what an iteration does
LoopFrames == {<<1>>}

NoRet == <<>>

----------------------------------------------------------------------------
(* CaptureStateMachine *)

\* a guard that refuses the wake word only while a capture is running
WakeRejected_OnlyCapturing == state = "CAPTURING"

\* state_machine.py:67  if self._state != State.IDLE: ... return
WakeRejected == state # "IDLE"

\* a capture that starts on what the buffer still holds
StartBuffer_Keep(preroll) ==
    IF preroll # <<>> THEN Append(capture_buffer, preroll) ELSE capture_buffer

\* state_machine.py:76-78  the buffer a capture starts with
StartBuffer(preroll) == IF preroll # <<>> THEN <<preroll>> ELSE <<>>

on_wake_word(preroll) ==
    /\ UNCHANGED <<player_vars, capture_vars, backend_vars, race_vars, chime_vars, cb_vars, aux_vars>>
    /\ ev' = [op |-> "on_wake_word", arg |-> <<preroll>>]
    /\ ret' = NoRet
    /\ IF WakeRejected
       THEN UNCHANGED <<state, capture_buffer, last_speech_time,
                        capture_start_time, conversation_start, fed, abandoned>>
       ELSE /\ state' = "CAPTURING"
            /\ capture_buffer' = StartBuffer(preroll)
            /\ last_speech_time' = 0
            /\ capture_start_time' = 0
            /\ fed' = preroll
            /\ UNCHANGED <<conversation_start, abandoned>>

\* state_machine.py:94  if self._state != State.CAPTURING: return None
FrameRejected == state # "CAPTURING"

\* a buffer that keeps speech frames only
Buffered_SpeechOnly(frame, is_speech) ==
    IF is_speech THEN Append(capture_buffer, frame) ELSE capture_buffer

\* state_machine.py:99  self._capture_buffer.append(frame)
Buffered(frame, is_speech) == Append(capture_buffer, frame)

\* state_machine.py:101-105  silence_duration after the frame was seen
SilenceDuration(is_speech) == IF is_speech THEN 0 ELSE last_speech_time

\* a silence check that counts buffered frames instead of reading the clock
SilenceTimedOut_FrameCount(is_speech) ==
    ~is_speech /\ Len(capture_buffer) >= SILENCE_TIMEOUT_S

\* a silence check made on the stamp as it was before this frame
SilenceTimedOut_Stale(is_speech) == last_speech_time >= SILENCE_TIMEOUT_S

\* state_machine.py:106  if silence_duration >= self._silence_timeout
SilenceTimedOut(is_speech) == SilenceDuration(is_speech) >= SILENCE_TIMEOUT_S

\* state_machine.py:109  audio = b"".join(self._capture_buffer)
Finalized(buffer) == Join(buffer)

on_frame(frame, is_speech) ==
    /\ UNCHANGED <<player_vars, capture_vars, backend_vars, race_vars, chime_vars, cb_vars, aux_vars>>
    /\ ev' = [op |-> "on_frame", arg |-> <<frame, is_speech>>]
    /\ IF FrameRejected
       THEN /\ ret' = NoRet
            /\ UNCHANGED <<state, capture_buffer, last_speech_time,
                           capture_start_time, conversation_start, fed, abandoned>>
       ELSE /\ fed' = fed \o frame
            /\ last_speech_time' = SilenceDuration(is_speech)
            /\ IF SilenceTimedOut(is_speech)
               THEN /\ ret' = <<Finalized(Buffered(frame, is_speech))>>
                    /\ state' = "IDLE"
                    /\ capture_buffer' = <<>>
               ELSE /\ ret' = NoRet
                    /\ capture_buffer' = Buffered(frame, is_speech)
                    /\ UNCHANGED state
            /\ UNCHANGED <<capture_start_time, conversation_start, abandoned>>

\* state_machine.py:143-144, 189-190  the call leaves a capture that has
\* buffered frames; the frames are not returned
Abandons == state = "CAPTURING" /\ capture_buffer # <<>>

\* state_machine.py:143-144
on_tts_done ==
    /\ UNCHANGED <<player_vars, main_vars, capture_vars, backend_vars, race_vars, chime_vars, cb_vars, aux_vars>>
    /\ ev' = [op |-> "on_tts_done", arg |-> <<>>]
    /\ ret' = NoRet
    /\ state' = "CONVERSATION"
    /\ conversation_start' = 0
    /\ abandoned' = (abandoned \/ Abandons)
    /\ UNCHANGED <<capture_buffer, last_speech_time, capture_start_time, fed>>

\* state_machine.py:155
ConversationExpired == conversation_start >= CONVERSATION_TIMEOUT_S

check_conversation_timeout ==
    /\ UNCHANGED <<player_vars, main_vars, capture_vars, backend_vars, race_vars, chime_vars, cb_vars, aux_vars>>
    /\ ev' = [op |-> "check_conversation_timeout", arg |-> <<>>]
    /\ IF state # "CONVERSATION"
       THEN /\ ret' = <<FALSE>>
            /\ UNCHANGED state
       ELSE IF ConversationExpired
            THEN /\ state' = "IDLE"
                 /\ ret' = <<TRUE>>
            ELSE /\ ret' = <<FALSE>>
                 /\ UNCHANGED state
    /\ UNCHANGED <<capture_buffer, last_speech_time, capture_start_time,
                   conversation_start, fed, abandoned>>

\* state_machine.py:168
SpeechRejected == state # "CONVERSATION"

on_conversation_speech ==
    /\ UNCHANGED <<player_vars, main_vars, capture_vars, backend_vars, race_vars, chime_vars, cb_vars, aux_vars>>
    /\ ev' = [op |-> "on_conversation_speech", arg |-> <<>>]
    /\ ret' = NoRet
    /\ IF SpeechRejected
       THEN UNCHANGED <<state, capture_buffer, last_speech_time,
                        capture_start_time, conversation_start, fed, abandoned>>
       ELSE /\ state' = "CAPTURING"
            /\ capture_buffer' = <<>>
            /\ last_speech_time' = 0
            /\ capture_start_time' = 0
            /\ fed' = <<>>
            /\ UNCHANGED <<conversation_start, abandoned>>

\* state_machine.py:189-191; the stamp 0.0 is at least as old as any other
reset ==
    /\ UNCHANGED <<player_vars, main_vars, capture_vars, backend_vars, race_vars, chime_vars, cb_vars, aux_vars>>
    /\ ev' = [op |-> "reset", arg |-> <<>>]
    /\ ret' = NoRet
    /\ state' = "IDLE"
    /\ capture_buffer' = <<>>
    /\ \E up \in 0..(CONVERSATION_TIMEOUT_S + 1) :
          /\ up >= conversation_start
          /\ up >= capture_start_time
          /\ conversation_start' = up
    /\ abandoned' = (abandoned \/ Abandons)
    /\ UNCHANGED <<last_speech_time, capture_start_time, fed>>

\* one second of time.monotonic()
SMTick ==
    /\ UNCHANGED <<player_vars, capture_vars, backend_vars, race_vars, chime_vars, cb_vars, aux_vars>>
    /\ UNCHANGED <<ww_history, ww_call, loop_pc>>
    /\ tts_done_age' = IF tts_done_age = None THEN None
                       ELSE Aged(tts_done_age, CONVERSATION_TIMEOUT_S)
    /\ ev' = [op |-> "tick", arg |-> <<>>]
    /\ ret' = NoRet
    /\ last_speech_time' = Aged(last_speech_time, SILENCE_TIMEOUT_S)
    /\ capture_start_time' = Aged(capture_start_time, SILENCE_TIMEOUT_S)
    /\ conversation_start' = Aged(conversation_start, CONVERSATION_TIMEOUT_S)
    /\ UNCHANGED <<state, capture_buffer, fed, abandoned>>

\* the calls of SpecSM: any pre-roll, any frame; a capture takes at most
\* MaxCapture frames
WakeWord ==
    /\ \E preroll \in Prerolls : on_wake_word(preroll)
    /\ UNCHANGED main_vars

Frame ==
    /\ state = "CAPTURING" => Len(capture_buffer) < MaxCapture
    /\ \E frame \in Frames, is_speech \in BOOLEAN : on_frame(frame, is_speech)
    /\ UNCHANGED main_vars

SMNext ==
    \/ WakeWord
    \/ Frame
    \/ on_tts_done
    \/ check_conversation_timeout
    \/ on_conversation_speech
    \/ reset
    \/ SMTick

----------------------------------------------------------------------------
(* The decision loop of __main__.py.  capture.get_frame() and                *)
(* capture.drain_preroll() are taken by what they may return: any frame, any *)
(* pre-roll (AudioCapture itself is modelled further down); the VAD and the  *)
(* wake word detector by their verdicts.                                     *)

\* backend.py:363-365  voice:tts_done is logged; no call reaches the state
\* machine or a player
backend_on_tts_done ==
    /\ ev' = [op |-> "tts_done", arg |-> <<>>]
    /\ ret' = NoRet
    /\ tts_done_age' = 0
    /\ UNCHANGED <<ww_history, ww_call, loop_pc>>
    /\ UNCHANGED <<state, capture_buffer, last_speech_time, capture_start_time,
                   conversation_start, fed, abandoned>>
    /\ UNCHANGED <<player_vars, capture_vars, backend_vars, race_vars, chime_vars, cb_vars, aux_vars>>

\* a loop that runs the detector on every speech frame
DetectorFed_AnyState(is_speech) == is_speech

\* __main__.py:102-105  the wake word detector runs on speech frames in IDLE
DetectorFed(is_speech) == state = "IDLE" /\ is_speech

\* __main__.py:102-106
WakeDetected(is_speech, detected) == state = "IDLE" /\ is_speech /\ detected

\* wakeword.py:47-77  detect: the frame joins the model's history
detect == TRUE

\* wakeword.py:79-82  reset: the model's history is discarded
wakeword_reset == FALSE

\* __main__.py:93-131  one iteration that got a frame.  A capture takes at most
\* MaxCapture frames before the silence boundary: later ones are not
\* delivered (dropped) until a silent frame can end it.
main(frame, is_speech, detected, preroll) ==
    /\ tts_done_age' = IF is_speech THEN None ELSE tts_done_age
    /\ ww_history' = IF WakeDetected(is_speech, detected) THEN wakeword_reset
                     ELSE IF DetectorFed(is_speech) THEN detect
                     ELSE ww_history
    /\ ww_call' = IF WakeDetected(is_speech, detected) THEN "detect, reset"
                  ELSE IF DetectorFed(is_speech) THEN "detect"
                  ELSE "none"
    /\ IF WakeDetected(is_speech, detected)
       THEN on_wake_word(preroll)
       ELSE IF state = "CAPTURING"
            THEN /\ \/ Len(capture_buffer) < MaxCapture
                    \/ ~is_speech /\ last_speech_time >= SILENCE_TIMEOUT_S
                 /\ on_frame(frame, is_speech)
            ELSE /\ ev' = [op |-> "frame", arg |-> <<frame, is_speech>>]
                 /\ ret' = NoRet
                 /\ UNCHANGED <<state, capture_buffer, last_speech_time,
                                capture_start_time, conversation_start, fed, abandoned>>
                 /\ UNCHANGED <<player_vars, capture_vars, backend_vars, race_vars, chime_vars, cb_vars, aux_vars>>

\* __main__.py:102-108  the detector gives a verdict only when it is run, and
\* the pre-roll is drained only on a hit
MainLoop ==
    \E frame \in LoopFrames, is_speech \in BOOLEAN :
        \E detected \in (IF DetectorFed(is_speech) THEN BOOLEAN ELSE {FALSE}) :
            \E preroll \in (IF WakeDetected(is_speech, detected)
                             THEN Prerolls ELSE {<<>>}) :
                main(frame, is_speech, detected, preroll) /\ UNCHANGED loop_pc

\* __main__.py:118-130  the utterance handed to backend.send_audio by the
\* iteration just made: <<>> for none
SentToBackend == IF ev.op = "on_frame" THEN ret ELSE NoRet

MainNext ==
    \/ MainLoop
    \/ backend_on_tts_done
    \/ SMTick

----------------------------------------------------------------------------
(* AudioPlayer *)

\* audio payloads: 1 and 3 decode to PCM, 2 does not (ffmpeg fails); b"" is 0
AudioData == {1, 2}

NoItem == <<0, 0, "none">>

EmptyMap == [i \in {} |-> NoItem]

\* the state after __init__; also the player's state in SpecSM, where it is idle
PlayerIdle ==
    /\ queue = EmptyBag
    /\ playing = FALSE
    /\ stop_event = FALSE
    /\ mic_muted_at = None
    /\ mixer = "cap"
    /\ next_index = 0
    /\ pending = EmptyMap
    /\ item = NoItem
    /\ pc = "loop"
    /\ stop_pc = "idle"
    /\ written = <<>>
    /\ dropped = {}
    /\ unmutes = 0
    /\ last_unmute_by = "none"
    /\ sentinels = 0
    /\ n_enq = 0
    /\ sent = <<>>

\* no chime has been played, no callback invoked
ChimeIdle ==
    /\ chime_k = 0
    /\ chime_log = <<>>
    /\ n_chimes = 0
    /\ callbacks = 0
    /\ cb_raised = FALSE

\* the state machine's state in the player's specifications, where it is idle
SMIdle ==
    /\ state = "IDLE"
    /\ capture_buffer = <<>>
    /\ last_speech_time = 0
    /\ capture_start_time = 0
    /\ conversation_start = 0
    /\ ev = [op |-> "init", arg |-> <<>>]
    /\ ret = NoRet
    /\ fed = <<>>
    /\ abandoned = FALSE

\* str order of the content types used
CtRank(ct) == IF ct = "sentinel" THEN 1 ELSE 0

\* tuple order of queue items (index, bytes, content_type)
ItemLess(a, b) ==
    \/ a[1] < b[1]
    \/ a[1] = b[1] /\ a[2] < b[2]
    \/ a[1] = b[1] /\ a[2] = b[2] /\ CtRank(a[3]) < CtRank(b[3])

\* a queue that hands out the largest item first
QueueMin_Largest ==
    CHOOSE a \in BagToSet(queue) :
        \A b \in BagToSet(queue) : a = b \/ ItemLess(b, a)

\* PriorityQueue.get: the smallest item
QueueMin ==
    CHOOSE a \in BagToSet(queue) :
        \A b \in BagToSet(queue) : a = b \/ ItemLess(a, b)

Put(it) == queue (+) SetToBag({it})

\* speaker.py:117
ChunkItem(index, data) == <<index, data, "audio">>

\* speaker.py:126
SentinelItem(total_chunks) == <<total_chunks, 0, "sentinel">>

\* speaker.py:344-375: PCM of a payload, empty when decoding fails
DecodeToPcm(data) == IF data \in {1, 3} THEN <<data>> ELSE <<>>

\* ---- the enqueuing thread (backend callbacks)

enqueue(index, data) ==
    /\ n_enq < MaxEnq
    /\ queue' = Put(ChunkItem(index, data))
    /\ n_enq' = n_enq + 1
    /\ UNCHANGED <<playing, stop_event, mic_muted_at, mixer, next_index, pending,
                   item, pc, stop_pc, written, dropped, unmutes, last_unmute_by,
                   sentinels, sent>>
    /\ UNCHANGED <<sm_vars, main_vars, capture_vars, backend_vars, race_vars, chime_vars, cb_vars, aux_vars>>

signal_done(total_chunks) ==
    /\ n_enq < MaxEnq
    /\ queue' = Put(SentinelItem(total_chunks))
    /\ n_enq' = n_enq + 1
    /\ UNCHANGED <<playing, stop_event, mic_muted_at, mixer, next_index, pending,
                   item, pc, stop_pc, written, dropped, unmutes, last_unmute_by,
                   sentinels, sent>>
    /\ UNCHANGED <<sm_vars, main_vars, capture_vars, backend_vars, race_vars, chime_vars, cb_vars, aux_vars>>

Enqueue == \E index \in 0..MaxIdx, data \in AudioData : enqueue(index, data)

SignalDone == \E total_chunks \in 0..(MaxIdx + 1) : signal_done(total_chunks)

\* ---- the enqueuing thread in one well-formed session: chunks 0..n-1, each
\* once, in any order, then signal_done(n)

SentIndices == {sent[k][1] : k \in {k \in 1..Len(sent) : sent[k][3] = "audio"}}

DoneSent == \E k \in 1..Len(sent) : sent[k][3] = "sentinel"

session_enqueue(index, data) ==
    /\ ~DoneSent
    /\ index \notin SentIndices
    /\ queue' = Put(ChunkItem(index, data))
    /\ sent' = Append(sent, ChunkItem(index, data))
    /\ n_enq' = n_enq + 1
    /\ UNCHANGED <<playing, stop_event, mic_muted_at, mixer, next_index, pending,
                   item, pc, stop_pc, written, dropped, unmutes, last_unmute_by,
                   sentinels>>
    /\ UNCHANGED <<sm_vars, main_vars, capture_vars, backend_vars, race_vars, chime_vars, cb_vars, aux_vars>>

session_done ==
    /\ ~DoneSent
    /\ Len(sent) >= 1
    /\ SentIndices = 0..(Len(sent) - 1)
    /\ queue' = Put(SentinelItem(Len(sent)))
    /\ sent' = Append(sent, SentinelItem(Len(sent)))
    /\ n_enq' = n_enq + 1
    /\ UNCHANGED <<playing, stop_event, mic_muted_at, mixer, next_index, pending,
                   item, pc, stop_pc, written, dropped, unmutes, last_unmute_by,
                   sentinels>>
    /\ UNCHANGED <<sm_vars, main_vars, capture_vars, backend_vars, race_vars, chime_vars, cb_vars, aux_vars>>

SessionEnqueue ==
    \E index \in 0..(MaxChunks - 1), data \in AudioData :
        session_enqueue(index, data)

\* ---- the enqueuing side over two TTS sessions of SessionChunks chunks each.
\* The chunks of the first session carry payload 1, those of the second
\* payload 3.  The first session starts with its chunk 0; its other chunk may
\* arrive at any time, also after its sentinel; the second session is sent after signal_done of the
\* first, whole, chunks before its sentinel, and may start before the first
\* sentinel was processed.

SessionChunks == 2

PayloadOf(s) == IF s = 1 THEN 1 ELSE 3

SessionOf(data) == IF data = 1 THEN 1 ELSE 2

ChunkSent(s, index) ==
    \E k \in 1..Len(sent) : sent[k] = ChunkItem(index, PayloadOf(s))

SentinelsSent == Cardinality({k \in 1..Len(sent) : sent[k][3] = "sentinel"})

\* speaker.py:108-118  enqueue for chunk `index` of session s
sessions_enqueue(s, index) ==
    /\ ~ChunkSent(s, index)
    /\ s = 2 => SentinelsSent = 1
    /\ queue' = Put(ChunkItem(index, PayloadOf(s)))
    /\ sent' = Append(sent, ChunkItem(index, PayloadOf(s)))
    /\ n_enq' = n_enq + 1
    /\ UNCHANGED <<playing, stop_event, mic_muted_at, mixer, next_index, pending,
                   item, pc, stop_pc, written, dropped, unmutes, last_unmute_by,
                   sentinels>>
    /\ UNCHANGED <<sm_vars, main_vars, capture_vars, backend_vars, race_vars, chime_vars, cb_vars, aux_vars>>

\* speaker.py:120-127  signal_done of the first, then of the second session
sessions_done ==
    /\ SentinelsSent < 2
    /\ SentinelsSent = 0 => ChunkSent(1, 0)
    /\ SentinelsSent = 1 =>
           \A index \in 0..(SessionChunks - 1) : ChunkSent(2, index)
    /\ queue' = Put(SentinelItem(SessionChunks))
    /\ sent' = Append(sent, SentinelItem(SessionChunks))
    /\ n_enq' = n_enq + 1
    /\ UNCHANGED <<playing, stop_event, mic_muted_at, mixer, next_index, pending,
                   item, pc, stop_pc, written, dropped, unmutes, last_unmute_by,
                   sentinels>>
    /\ UNCHANGED <<sm_vars, main_vars, capture_vars, backend_vars, race_vars, chime_vars, cb_vars, aux_vars>>

SessionsEnqueue ==
    \E s \in {1, 2}, index \in 0..(SessionChunks - 1) : sessions_enqueue(s, index)

\* ---- _mute_mic / _unmute_mic, each two steps: the amixer command, the field

\* speaker.py:192-196
MuteCmd ==
    /\ mixer' = "nocap"
    /\ UNCHANGED <<mic_muted_at, unmutes, last_unmute_by>>

\* speaker.py:199
MuteSet ==
    /\ mic_muted_at' = 0
    /\ UNCHANGED <<mixer, unmutes, last_unmute_by>>

\* speaker.py:205-209
UnmuteCmd(who) ==
    /\ mixer' = "cap"
    /\ unmutes' = unmutes + 1
    /\ last_unmute_by' = who
    /\ UNCHANGED mic_muted_at

\* speaker.py:212
UnmuteSet ==
    /\ mic_muted_at' = None
    /\ UNCHANGED <<mixer, unmutes, last_unmute_by>>

\* ---- _playback_loop

\* a safety timer that takes the timeout for milliseconds
SafetyExpired_Millis == mic_muted_at > MIC_MUTE_SAFETY_TIMEOUT_S * 1000

\* speaker.py:285
SafetyExpired == mic_muted_at > MIC_MUTE_SAFETY_TIMEOUT_S

\* speaker.py:281
LoopTest ==
    /\ pc = "loop"
    /\ pc' = IF stop_event THEN "exited" ELSE "safety"
    /\ UNCHANGED <<queue, playing, stop_event, mic_muted_at, mixer, next_index,
                   pending, item, stop_pc, written, dropped, unmutes,
                   last_unmute_by, sentinels, n_enq, sent>>
    /\ UNCHANGED <<sm_vars, main_vars, capture_vars, backend_vars, race_vars, chime_vars, cb_vars, aux_vars>>

\* speaker.py:284  self._mic_muted_at is not None
SafetyTest ==
    /\ pc = "safety"
    /\ pc' = IF mic_muted_at # None THEN "safety_age" ELSE "get"
    /\ UNCHANGED <<queue, playing, stop_event, mic_muted_at, mixer, next_index,
                   pending, item, stop_pc, written, dropped, unmutes,
                   last_unmute_by, sentinels, n_enq, sent>>
    /\ UNCHANGED <<sm_vars, main_vars, capture_vars, backend_vars, race_vars, chime_vars, cb_vars, aux_vars>>

\* speaker.py:285: the field is read again; None here raises TypeError and
\* ends the thread
SafetyAge ==
    /\ pc = "safety_age"
    /\ pc' = IF mic_muted_at = None THEN "crashed"
             ELSE IF SafetyExpired THEN "safety_unmute_cmd"
             ELSE "get"
    /\ UNCHANGED <<queue, playing, stop_event, mic_muted_at, mixer, next_index,
                   pending, item, stop_pc, written, dropped, unmutes,
                   last_unmute_by, sentinels, n_enq, sent>>
    /\ UNCHANGED <<sm_vars, main_vars, capture_vars, backend_vars, race_vars, chime_vars, cb_vars, aux_vars>>

\* speaker.py:291
SafetyUnmuteCmd ==
    /\ pc = "safety_unmute_cmd"
    /\ UnmuteCmd("safety")
    /\ pc' = "safety_unmute_set"
    /\ UNCHANGED <<queue, playing, stop_event, next_index, pending, item,
                   stop_pc, written, dropped, sentinels, n_enq, sent>>
    /\ UNCHANGED <<sm_vars, main_vars, capture_vars, backend_vars, race_vars, chime_vars, cb_vars, aux_vars>>

SafetyUnmuteSet ==
    /\ pc = "safety_unmute_set"
    /\ UnmuteSet
    /\ pc' = "get"
    /\ UNCHANGED <<queue, playing, stop_event, next_index, pending, item,
                   stop_pc, written, dropped, sentinels, n_enq, sent>>
    /\ UNCHANGED <<sm_vars, main_vars, capture_vars, backend_vars, race_vars, chime_vars, cb_vars, aux_vars>>

\* speaker.py:294-299: queue.Empty after the timeout restarts the loop
Get ==
    /\ pc = "get"
    /\ IF queue = EmptyBag
       THEN /\ pc' = "loop"
            /\ UNCHANGED <<queue, item>>
       ELSE /\ item' = QueueMin
            /\ queue' = queue (-) SetToBag({QueueMin})
            /\ pc' = "item"
    /\ UNCHANGED <<playing, stop_event, mic_muted_at, mixer, next_index, pending,
                   stop_pc, written, dropped, unmutes, last_unmute_by,
                   sentinels, n_enq, sent>>
    /\ UNCHANGED <<sm_vars, main_vars, capture_vars, backend_vars, race_vars, chime_vars, cb_vars, aux_vars>>

\* speaker.py:325
Stored(it) ==
    [i \in DOMAIN pending \cup {it[1]} |->
        IF i = it[1] THEN <<it[2], it[3]>> ELSE pending[i]]

\* a loop that mutes for no chunk
IsFirstChunk_Never(it) == FALSE

\* speaker.py:328
IsFirstChunk(it) == it[1] = 0

\* speaker.py:302-306, 325-328
Item ==
    /\ pc = "item"
    /\ IF item[3] = "sentinel"
       THEN /\ pc' = "sentinel"
            /\ UNCHANGED pending
       ELSE /\ pending' = Stored(item)
            /\ pc' = IF IsFirstChunk(item) THEN "mute_cmd" ELSE "play"
    /\ UNCHANGED <<queue, playing, stop_event, mic_muted_at, mixer, next_index,
                   item, stop_pc, written, dropped, unmutes, last_unmute_by,
                   sentinels, n_enq, sent>>
    /\ UNCHANGED <<sm_vars, main_vars, capture_vars, backend_vars, race_vars, chime_vars, cb_vars, aux_vars>>

\* speaker.py:329
ChunkMuteCmd ==
    /\ pc = "mute_cmd"
    /\ MuteCmd
    /\ pc' = "mute_set"
    /\ UNCHANGED <<queue, playing, stop_event, next_index, pending, item,
                   stop_pc, written, dropped, sentinels, n_enq, sent>>
    /\ UNCHANGED <<sm_vars, main_vars, capture_vars, backend_vars, race_vars, chime_vars, cb_vars, aux_vars>>

\* speaker.py:199, 330
ChunkMuteSet ==
    /\ pc = "mute_set"
    /\ MuteSet
    /\ playing' = TRUE
    /\ pc' = "play"
    /\ UNCHANGED <<queue, stop_event, next_index, pending, item, stop_pc,
                   written, dropped, sentinels, n_enq, sent>>
    /\ UNCHANGED <<sm_vars, main_vars, capture_vars, backend_vars, race_vars, chime_vars, cb_vars, aux_vars>>

\* a loop that plays the lowest buffered chunk, whatever the cursor says
PlayKey_Lowest ==
    IF DOMAIN pending = {} THEN next_index
    ELSE CHOOSE i \in DOMAIN pending : \A j \in DOMAIN pending : i <= j

\* speaker.py:333-334: the key looked up and popped
PlayKey == next_index

\* speaker.py:333
HasNext == PlayKey \in DOMAIN pending

\* speaker.py:334
Popped == [i \in DOMAIN pending \ {PlayKey} |-> pending[i]]

\* a cursor that moves on only past a chunk it has written
Advanced_OnlyWritten(pcm_data) ==
    IF pcm_data # <<>> THEN next_index + 1 ELSE next_index

\* speaker.py:338: next_index += 1, whatever the decoding gave
Advanced(pcm_data) == next_index + 1

\* speaker.py:333-338: one turn of the inner loop, or its end
Play ==
    /\ pc = "play"
    /\ IF HasNext
       THEN /\ pending' = Popped
            /\ IF DecodeToPcm(pending[PlayKey][1]) # <<>>
               THEN /\ written' = Append(written, PlayKey)
                    /\ UNCHANGED dropped
               ELSE /\ dropped' = dropped \cup {PlayKey}
                    /\ UNCHANGED written
            /\ next_index' = Advanced(DecodeToPcm(pending[PlayKey][1]))
            /\ UNCHANGED pc
       ELSE /\ pc' = "loop"
            /\ UNCHANGED <<pending, written, dropped, next_index>>
    /\ UNCHANGED <<queue, playing, stop_event, mic_muted_at, mixer, item,
                   stop_pc, unmutes, last_unmute_by, sentinels, n_enq, sent>>
    /\ UNCHANGED <<sm_vars, main_vars, capture_vars, backend_vars, race_vars, chime_vars, cb_vars, aux_vars>>

\* a sentinel branch without the unmute
SentinelMustUnmute_Never == FALSE

\* speaker.py:310
SentinelMustUnmute == mic_muted_at # None

\* speaker.py:303-310
Sentinel ==
    /\ pc = "sentinel"
    /\ pc' = IF SentinelMustUnmute THEN "sentinel_unmute_cmd" ELSE "finally"
    /\ UNCHANGED <<queue, playing, stop_event, mic_muted_at, mixer, next_index,
                   pending, item, stop_pc, written, dropped, unmutes,
                   last_unmute_by, sentinels, n_enq, sent>>
    /\ UNCHANGED <<sm_vars, main_vars, capture_vars, backend_vars, race_vars, chime_vars, cb_vars, aux_vars>>

\* speaker.py:311
SentinelUnmuteCmd ==
    /\ pc = "sentinel_unmute_cmd"
    /\ UnmuteCmd("sentinel")
    /\ pc' = "sentinel_unmute_set"
    /\ UNCHANGED <<queue, playing, stop_event, next_index, pending, item,
                   stop_pc, written, dropped, sentinels, n_enq, sent>>
    /\ UNCHANGED <<sm_vars, main_vars, capture_vars, backend_vars, race_vars, chime_vars, cb_vars, aux_vars>>

SentinelUnmuteSet ==
    /\ pc = "sentinel_unmute_set"
    /\ UnmuteSet
    /\ pc' = "finally"
    /\ UNCHANGED <<queue, playing, stop_event, next_index, pending, item,
                   stop_pc, written, dropped, sentinels, n_enq, sent>>
    /\ UNCHANGED <<sm_vars, main_vars, capture_vars, backend_vars, race_vars, chime_vars, cb_vars, aux_vars>>

\* speaker.py:313-315
Finally ==
    /\ pc = "finally"
    /\ playing' = FALSE
    /\ next_index' = 0
    /\ pending' = EmptyMap
    /\ written' = <<>>
    /\ dropped' = {}
    /\ sentinels' = sentinels + 1
    /\ pc' = "callback"
    /\ UNCHANGED <<queue, stop_event, mic_muted_at, mixer, item, stop_pc,
                   unmutes, last_unmute_by, n_enq, sent>>
    /\ UNCHANGED <<sm_vars, main_vars, capture_vars, backend_vars, race_vars, chime_vars, cb_vars, aux_vars>>

\* a loop that lets the callback's exception through
AfterCallback_Propagates(raised) == IF raised THEN "crashed" ELSE "loop"

\* speaker.py:320-322: the exception is caught and logged; continue
AfterCallback(raised) == "loop"

\* speaker.py:317-322: on_playback_done runs; it returns or raises
Callback ==
    /\ pc = "callback"
    /\ callbacks' = callbacks + 1
    /\ \E raised \in BOOLEAN :
          /\ cb_raised' = raised
          /\ pc' = AfterCallback(raised)
    /\ UNCHANGED <<queue, playing, stop_event, mic_muted_at, mixer, next_index,
                   pending, item, stop_pc, written, dropped, unmutes,
                   last_unmute_by, sentinels, n_enq, sent>>
    /\ UNCHANGED <<sm_vars, main_vars, capture_vars, backend_vars, race_vars, chime_vars, aux_vars>>

PlaybackLoop ==
    \/ LoopTest
    \/ SafetyTest
    \/ SafetyAge
    \/ SafetyUnmuteCmd
    \/ SafetyUnmuteSet
    \/ Get
    \/ Item
    \/ ChunkMuteCmd
    \/ ChunkMuteSet
    \/ Play
    \/ Sentinel
    \/ SentinelUnmuteCmd
    \/ SentinelUnmuteSet
    \/ Finally
    \/ Callback

\* ---- stop(), on the caller's thread

\* speaker.py:149
StopSetEvent ==
    /\ stop_pc = "idle"
    /\ stop_event' = TRUE
    /\ stop_pc' = "test"
    /\ UNCHANGED <<queue, playing, mic_muted_at, mixer, next_index, pending,
                   item, pc, written, dropped, unmutes, last_unmute_by,
                   sentinels, n_enq, sent>>
    /\ UNCHANGED <<sm_vars, main_vars, capture_vars, backend_vars, race_vars, chime_vars, cb_vars, aux_vars>>

\* speaker.py:152
StopMustUnmute == mic_muted_at # None

StopTest ==
    /\ stop_pc = "test"
    /\ stop_pc' = IF StopMustUnmute THEN "unmute_cmd" ELSE "join"
    /\ UNCHANGED <<queue, playing, stop_event, mic_muted_at, mixer, next_index,
                   pending, item, pc, written, dropped, unmutes, last_unmute_by,
                   sentinels, n_enq, sent>>
    /\ UNCHANGED <<sm_vars, main_vars, capture_vars, backend_vars, race_vars, chime_vars, cb_vars, aux_vars>>

\* speaker.py:153
StopUnmuteCmd ==
    /\ stop_pc = "unmute_cmd"
    /\ UnmuteCmd("stop")
    /\ stop_pc' = "unmute_set"
    /\ UNCHANGED <<queue, playing, stop_event, next_index, pending, item, pc,
                   written, dropped, sentinels, n_enq, sent>>
    /\ UNCHANGED <<sm_vars, main_vars, capture_vars, backend_vars, race_vars, chime_vars, cb_vars, aux_vars>>

StopUnmuteSet ==
    /\ stop_pc = "unmute_set"
    /\ UnmuteSet
    /\ stop_pc' = "join"
    /\ UNCHANGED <<queue, playing, stop_event, next_index, pending, item, pc,
                   written, dropped, sentinels, n_enq, sent>>
    /\ UNCHANGED <<sm_vars, main_vars, capture_vars, backend_vars, race_vars, chime_vars, cb_vars, aux_vars>>

\* speaker.py:155-162: join returns when the thread has ended or after 2 s
StopJoin ==
    /\ stop_pc = "join"
    /\ stop_pc' = "done"
    /\ UNCHANGED <<queue, playing, stop_event, mic_muted_at, mixer, next_index,
                   pending, item, pc, written, dropped, unmutes, last_unmute_by,
                   sentinels, n_enq, sent>>
    /\ UNCHANGED <<sm_vars, main_vars, capture_vars, backend_vars, race_vars, chime_vars, cb_vars, aux_vars>>

Stop ==
    \/ StopSetEvent
    \/ StopTest
    \/ StopUnmuteCmd
    \/ StopUnmuteSet
    \/ StopJoin

\* ---- the clock: ClockStep seconds pass
PlayerTick ==
    /\ mic_muted_at # None
    /\ mic_muted_at <= MIC_MUTE_SAFETY_TIMEOUT_S
    /\ mic_muted_at' = mic_muted_at + ClockStep
    /\ UNCHANGED <<queue, playing, stop_event, mixer, next_index, pending, item,
                   pc, stop_pc, written, dropped, unmutes, last_unmute_by,
                   sentinels, n_enq, sent>>
    /\ UNCHANGED <<sm_vars, main_vars, capture_vars, backend_vars, race_vars, chime_vars, cb_vars, aux_vars>>

ThreadExited == pc \in {"exited", "crashed"}

\* ---- play_chime(), on the caller's thread

\* speaker.py:142, 388-396: one period of the chime goes to the device; after
\* the last one play_chime returns
play_chime ==
    /\ n_chimes < MaxChimes
    /\ chime_log' = (IF chime_k = 0 THEN <<>> ELSE chime_log)
                        \o <<[session |-> sentinels, tts |-> written]>>
    /\ IF chime_k + 1 < ChimePeriods
       THEN /\ chime_k' = chime_k + 1
            /\ UNCHANGED n_chimes
       ELSE /\ chime_k' = 0
            /\ n_chimes' = n_chimes + 1
    /\ UNCHANGED <<sm_vars, player_vars, main_vars, capture_vars, backend_vars, race_vars, cb_vars, aux_vars>>

----------------------------------------------------------------------------
(* RingBuffer (ring_buffer.py) and AudioCapture (audio.py).                 *)
(*                                                                         *)
(* Two threads: the capture thread runs _capture_loop, the consumer (the   *)
(* decision thread) calls get_frame, drain_preroll and the ring's clear.   *)
(* The ring's lock is modelled: a method takes it, works, and gives it     *)
(* back with its last step.  queue.Queue's put_nowait and get are atomic.  *)
(* The n-th byte the device delivers has value n, so every byte and every  *)
(* frame can be told apart.  overrun_count only feeds a log line and is    *)
(* left out.                                                               *)

\* the decision loop's observation before any event
MainIdle ==
    /\ tts_done_age = None /\ ww_history = FALSE /\ ww_call = "none"
    /\ loop_pc = "get"

\* the state after AudioCapture.__init__ and start
CaptureIdle ==
    /\ ring = <<>>
    /\ ring_lock = "free"
    /\ frame_queue = <<>>
    /\ accumulator = <<>>
    /\ drop_count = 0
    /\ cap_frame = <<>>
    /\ cap_pc = "read"
    /\ cons_pc = "idle"
    /\ drain_data = <<>>
    /\ n_read = 0
    /\ emitted = <<>>
    /\ appended = <<>>
    /\ since = 0
    /\ gone = {}
    /\ returned = <<>>
    /\ delivered = <<>>
    /\ cap_stop_event = FALSE
    /\ cap_started = TRUE
    /\ overrun_count = 0
    /\ cap_reading = FALSE
    /\ cap_stop_pc = "idle"
    /\ read_result = "none"

\* the observation variables no step of the consumer's get_frame touches
ring_obs == <<appended, since, gone, returned>>

\* self._pcm.read(): `length` bytes of the device's stream after `from`
Stream(from, length) == [k \in 1..length |-> from + k]

\* a lock that excludes nobody
LockFree_Always == TRUE

\* ring_buffer.py:36,46,55  with self._lock
LockFree == ring_lock = "free"

\* a full deque that overwrites its newest frame
DequeAppend_ReplaceNewest(buf, frame) ==
    IF Len(buf) >= PREROLL_FRAMES
    THEN Append(SubSeq(buf, 1, Len(buf) - 1), frame)
    ELSE Append(buf, frame)

\* a full deque that refuses the new frame
DequeAppend_KeepOldest(buf, frame) ==
    IF Len(buf) >= PREROLL_FRAMES THEN buf ELSE Append(buf, frame)

\* ring_buffer.py:27,37  deque(maxlen=max_frames).append(frame)
DequeAppend(buf, frame) ==
    IF Len(buf) >= PREROLL_FRAMES
    THEN Append(Tail(buf), frame)
    ELSE Append(buf, frame)

\* audio.py:171  bytes(accumulator[:_TARGET_FRAME_BYTES])
FrameOf(acc) == SubSeq(acc, 1, Min(TARGET_FRAME_BYTES, Len(acc)))

\* an accumulator emptied after each frame
Remainder_Cleared(acc) == <<>>

\* audio.py:172  del accumulator[:_TARGET_FRAME_BYTES]
Remainder(acc) == SubSeq(acc, TARGET_FRAME_BYTES + 1, Len(acc))

\* audio.py:58,180  queue.Full
QueueFull(q) == Len(q) >= QUEUE_MAXSIZE

\* a full queue that makes room by dropping its oldest frame
QueuePut_DropOldest(q, frame) ==
    IF QueueFull(q) THEN Append(Tail(q), frame) ELSE Append(q, frame)

\* audio.py:178-181  self._queue.put_nowait(frame), queue.Full swallowed
QueuePut(q, frame) == IF QueueFull(q) THEN q ELSE Append(q, frame)

\* a get that hands out the newest frame
QueueFront_Newest(q) == q[Len(q)]

\* audio.py:109  self._queue.get(timeout=timeout): the oldest frame
QueueFront(q) == Head(q)

\* ---- the capture thread

\* audio.py:142  while not self._stop_event.is_set(): the thread leaves the
\* loop, or calls self._pcm.read(), which blocks
CaptureTest ==
    /\ cap_pc = "read"
    /\ ~cap_reading
    /\ IF cap_stop_event
       THEN cap_pc' = "exited" /\ UNCHANGED cap_reading
       ELSE cap_reading' = TRUE /\ UNCHANGED cap_pc
    /\ UNCHANGED <<cap_stop_event, cap_started, overrun_count, cap_stop_pc,
                   read_result>>
    /\ UNCHANGED <<ring, ring_lock, frame_queue, accumulator, drop_count,
                   cap_frame, cons_pc, drain_data, n_read, emitted, delivered,
                   ring_obs>>
    /\ UNCHANGED <<sm_vars, player_vars, main_vars, backend_vars, race_vars, chime_vars, cb_vars, shutdown_vars, health_vars, display_vars>>

\* a loop that gives up at the first overrun
AfterOverrun_Break == "exited"

\* audio.py:160  continue
AfterOverrun == "read"

\* audio.py:144, 151-167  the device read returns: an overrun (length < 0),
\* nothing (0), or `length` bytes, which are added to the accumulator
read(length) ==
    /\ cap_pc = "read"
    /\ cap_reading
    /\ n_read + length <= MaxEmit * TARGET_FRAME_BYTES
    /\ length < 0 => overrun_count < MaxOverruns
    /\ cap_reading' = FALSE
    /\ read_result' = IF length < 0 THEN "overrun"
                      ELSE IF length = 0 THEN "empty" ELSE "data"
    /\ overrun_count' = IF length < 0 THEN overrun_count + 1 ELSE overrun_count
    /\ IF length <= 0
       THEN /\ cap_pc' = IF length < 0 THEN AfterOverrun ELSE "read"
            /\ UNCHANGED <<accumulator, n_read>>
       ELSE /\ accumulator' = accumulator \o Stream(n_read, length)
            /\ n_read' = n_read + length
            /\ cap_pc' = "emit"
    /\ UNCHANGED <<cap_stop_event, cap_started, cap_stop_pc>>
    /\ UNCHANGED <<ring, ring_lock, frame_queue, drop_count, cap_frame, cons_pc,
                   drain_data, emitted, delivered, ring_obs>>
    /\ UNCHANGED <<sm_vars, player_vars, main_vars, backend_vars, race_vars, chime_vars, cb_vars, shutdown_vars, health_vars, display_vars>>

\* audio.py:145-149  the device read raises ALSAAudioError: break when the
\* stop flag is set, else continue
read_error ==
    /\ cap_pc = "read"
    /\ cap_reading
    /\ cap_reading' = FALSE
    /\ read_result' = "error"
    /\ cap_pc' = IF cap_stop_event THEN "exited" ELSE "read"
    /\ UNCHANGED <<cap_stop_event, cap_started, overrun_count, cap_stop_pc>>
    /\ UNCHANGED <<ring, ring_lock, frame_queue, accumulator, drop_count,
                   cap_frame, cons_pc, drain_data, n_read, emitted, delivered,
                   ring_obs>>
    /\ UNCHANGED <<sm_vars, player_vars, main_vars, backend_vars, race_vars, chime_vars, cb_vars, shutdown_vars, health_vars, display_vars>>

Read == read_error \/ \E length \in -1..MaxRead : read(length)

\* audio.py:170-172  the loop test and the slicing of one frame
Emit ==
    /\ cap_pc = "emit"
    /\ IF Len(accumulator) >= TARGET_FRAME_BYTES
       THEN /\ cap_frame' = FrameOf(accumulator)
            /\ accumulator' = Remainder(accumulator)
            /\ emitted' = Append(emitted, FrameOf(accumulator))
            /\ cap_pc' = "append"
       ELSE /\ cap_pc' = "read"
            /\ UNCHANGED <<cap_frame, accumulator, emitted>>
    /\ UNCHANGED <<ring, ring_lock, frame_queue, drop_count, cons_pc,
                   drain_data, n_read, delivered, ring_obs>>
    /\ UNCHANGED <<sm_vars, player_vars, main_vars, backend_vars, race_vars, chime_vars, cb_vars, aux_vars>>

\* audio.py:175, ring_buffer.py:36  append takes the lock
AppendLock ==
    /\ cap_pc = "append"
    /\ LockFree
    /\ ring_lock' = "capture"
    /\ cap_pc' = "append_do"
    /\ UNCHANGED <<ring, frame_queue, accumulator, drop_count, cap_frame,
                   cons_pc, drain_data, n_read, emitted, delivered, ring_obs>>
    /\ UNCHANGED <<sm_vars, player_vars, main_vars, backend_vars, race_vars, chime_vars, cb_vars, aux_vars>>

\* ring_buffer.py:37  self._buffer.append(frame), and the lock is released
AppendDo ==
    /\ cap_pc = "append_do"
    /\ ring' = DequeAppend(ring, cap_frame)
    /\ ring_lock' = "free"
    /\ cap_pc' = "put"
    /\ appended' = Append(appended, cap_frame)
    /\ since' = since + 1
    /\ gone' = IF Len(ring) >= PREROLL_FRAMES THEN gone \cup {Head(ring)}
               ELSE gone
    /\ UNCHANGED <<frame_queue, accumulator, drop_count, cap_frame, cons_pc,
                   drain_data, n_read, emitted, returned, delivered>>
    /\ UNCHANGED <<sm_vars, player_vars, main_vars, backend_vars, race_vars, chime_vars, cb_vars, aux_vars>>

\* audio.py:178-186  put_nowait; on queue.Full the drop is counted
PutNowait ==
    /\ cap_pc = "put"
    /\ frame_queue' = QueuePut(frame_queue, cap_frame)
    /\ drop_count' = IF QueueFull(frame_queue) THEN drop_count + 1
                     ELSE drop_count
    /\ cap_pc' = "emit"
    /\ UNCHANGED <<ring, ring_lock, accumulator, cap_frame, cons_pc, drain_data,
                   n_read, emitted, delivered, ring_obs>>
    /\ UNCHANGED <<sm_vars, player_vars, main_vars, backend_vars, race_vars, chime_vars, cb_vars, aux_vars>>

capture_loop ==
    \/ CaptureTest
    \/ Read
    \/ Emit
    \/ AppendLock
    \/ AppendDo
    \/ PutNowait

\* ---- AudioCapture.stop, on its caller's thread

\* audio.py:90-92  nothing when not started, else the stop flag is set
CaptureStopSet ==
    /\ cap_stop_pc = "idle"
    /\ cap_started
    /\ cap_stop_event' = TRUE
    /\ cap_stop_pc' = "join"
    /\ UNCHANGED <<cap_started, overrun_count, cap_reading, read_result>>
    /\ UNCHANGED <<sm_vars, player_vars, main_vars, capture_vars, backend_vars, race_vars, chime_vars, cb_vars, shutdown_vars, health_vars, display_vars>>

\* audio.py:93-97  join(timeout=2.0) returns, the thread ended or not
CaptureStopJoin ==
    /\ cap_stop_pc = "join"
    /\ cap_started' = FALSE
    /\ cap_stop_pc' = "idle"
    /\ UNCHANGED <<cap_stop_event, overrun_count, cap_reading, read_result>>
    /\ UNCHANGED <<sm_vars, player_vars, main_vars, capture_vars, backend_vars, race_vars, chime_vars, cb_vars, shutdown_vars, health_vars, display_vars>>

capture_stop == CaptureStopSet \/ CaptureStopJoin

\* ---- the consumer thread

\* audio.py:108-111  a frame, or None when the queue stayed empty
get_frame ==
    /\ cons_pc = "idle"
    /\ IF frame_queue = <<>>
       THEN UNCHANGED <<frame_queue, delivered>>
       ELSE /\ delivered' = Append(delivered, QueueFront(frame_queue))
            /\ frame_queue' = Tail(frame_queue)
    /\ UNCHANGED <<ring, ring_lock, accumulator, drop_count, cap_frame, cap_pc,
                   cons_pc, drain_data, n_read, emitted, ring_obs>>
    /\ UNCHANGED <<sm_vars, player_vars, verdict_vars, backend_vars, race_vars, chime_vars, cb_vars, aux_vars>>

\* audio.py:119, ring_buffer.py:46  drain takes the lock
DrainLock ==
    /\ cons_pc = "idle"
    /\ LockFree
    /\ ring_lock' = "main"
    /\ cons_pc' = "drain_join"
    /\ UNCHANGED <<ring, frame_queue, accumulator, drop_count, cap_frame,
                   cap_pc, drain_data, n_read, emitted, delivered, ring_obs>>
    /\ UNCHANGED <<sm_vars, player_vars, verdict_vars, backend_vars, race_vars, chime_vars, cb_vars, aux_vars>>

\* ring_buffer.py:47-49  b"" for an empty buffer, else the frames joined
DrainJoin ==
    /\ cons_pc = "drain_join"
    /\ drain_data' = Join(ring)
    /\ cons_pc' = IF ring = <<>> THEN "drain_return" ELSE "drain_clear"
    /\ UNCHANGED <<ring, ring_lock, frame_queue, accumulator, drop_count,
                   cap_frame, cap_pc, n_read, emitted, delivered, ring_obs>>
    /\ UNCHANGED <<sm_vars, player_vars, verdict_vars, backend_vars, race_vars, chime_vars, cb_vars, aux_vars>>

\* ring_buffer.py:50  self._buffer.clear()
DrainClear ==
    /\ cons_pc = "drain_clear"
    /\ ring' = <<>>
    /\ since' = 0
    /\ cons_pc' = "drain_return"
    /\ UNCHANGED <<ring_lock, frame_queue, accumulator, drop_count, cap_frame,
                   cap_pc, drain_data, n_read, emitted, appended, gone,
                   returned, delivered>>
    /\ UNCHANGED <<sm_vars, player_vars, verdict_vars, backend_vars, race_vars, chime_vars, cb_vars, aux_vars>>

\* ring_buffer.py:48,51  return: the lock is released
DrainReturn ==
    /\ cons_pc = "drain_return"
    /\ ring_lock' = "free"
    /\ returned' = returned \o drain_data
    /\ cons_pc' = "idle"
    /\ UNCHANGED <<ring, frame_queue, accumulator, drop_count, cap_frame,
                   cap_pc, drain_data, n_read, emitted, appended, since, gone,
                   delivered>>
    /\ UNCHANGED <<sm_vars, player_vars, verdict_vars, backend_vars, race_vars, chime_vars, cb_vars, aux_vars>>

drain_preroll ==
    \/ DrainLock
    \/ DrainJoin
    \/ DrainClear
    \/ DrainReturn

\* ring_buffer.py:55  clear takes the lock
ClearLock ==
    /\ cons_pc = "idle"
    /\ LockFree
    /\ ring_lock' = "main"
    /\ cons_pc' = "clear"
    /\ UNCHANGED <<ring, frame_queue, accumulator, drop_count, cap_frame,
                   cap_pc, drain_data, n_read, emitted, delivered, ring_obs>>
    /\ UNCHANGED <<sm_vars, player_vars, main_vars, backend_vars, race_vars, chime_vars, cb_vars, aux_vars>>

\* ring_buffer.py:56  self._buffer.clear(), and the lock is released
ClearDo ==
    /\ cons_pc = "clear"
    /\ ring' = <<>>
    /\ ring_lock' = "free"
    /\ since' = 0
    /\ gone' = gone \cup {ring[k] : k \in 1..Len(ring)}
    /\ cons_pc' = "idle"
    /\ UNCHANGED <<frame_queue, accumulator, drop_count, cap_frame, cap_pc,
                   drain_data, n_read, emitted, appended, returned, delivered>>
    /\ UNCHANGED <<sm_vars, player_vars, main_vars, backend_vars, race_vars, chime_vars, cb_vars, aux_vars>>

clear ==
    \/ ClearLock
    \/ ClearDo

CaptureNext ==
    \/ capture_loop
    \/ (get_frame /\ UNCHANGED loop_pc)
    \/ (drain_preroll /\ UNCHANGED loop_pc)
    \/ clear

----------------------------------------------------------------------------
(* BackendClient (backend.py) and the start of main (__main__.py:57-68).    *)
(*                                                                         *)
(* Threads: "main" runs main() (capture.start(), backend.connect(), then    *)
(* the decision loop with send_audio); "h1" and "h2" are threads of the     *)
(* Socket.IO client on which the connect, disconnect and connect_error      *)
(* handlers run.  Each thread has a position in bpc.  The transport itself  *)
(* is the library's: link tells whether the /voice namespace is connected,  *)
(* an emit on a connected namespace hands the event over, an emit on a      *)
(* disconnected one either raises or returns.  wire is the sequence of      *)
(* events emit has accepted.                                                *)
(***************************************************************************)

Threads == {"main", "h1", "h2"}

Handlers == {"h1", "h2"}

BackendIdle ==
    /\ connected = FALSE
    /\ token = None
    \* _token_acquired_at = 0.0: its age is the clock's own reading
    /\ token_acquired_at = TOKEN_REFRESH_S + TokenClockStep
    /\ lock = "free"
    /\ reconnect_count = 0
    /\ link = FALSE
    /\ bpc = [t \in Threads |-> IF t = "main" THEN "start" ELSE "idle"]
    /\ tok_now = [t \in Threads |-> None]
    /\ attempt = "none"
    /\ fetch_log = <<>>
    /\ wire = <<>>
    /\ captured_audio = <<>>
    /\ handed = <<>>
    /\ reported = <<>>
    /\ refused = <<>>
    /\ shutdown = FALSE
    /\ exit_code = None
    /\ shutdown_event = FALSE
    /\ teardown = <<>>
    /\ health_pc = "none"
    /\ last_pong_time = None
    /\ since_tick = 0
    /\ ticks = 0
    /\ pings = 0
    /\ tick_connected = FALSE
    /\ tick_warned = FALSE

\* utterances the decision loop may hand to send_audio
Utterances == {<<1>>, <<2, 1>>}

\* a WAV file without its payload
pcm_to_wav_HeaderOnly(pcm_bytes) == <<Len(pcm_bytes)>>

\* backend.py:39-51: the header (of which the data size is kept), then the PCM
pcm_to_wav(pcm_bytes) == <<Len(pcm_bytes)>> \o pcm_bytes

\* base64.b64encode: every byte becomes two digits of radix 4
RECURSIVE b64encode(_)
b64encode(bytes) ==
    IF bytes = <<>> THEN <<>>
    ELSE <<Head(bytes) \div 4, Head(bytes) % 4>> \o b64encode(Tail(bytes))

\* backend.py:178-180, 192-194: an event without audio
Signal(name) ==
    [name |-> name, utt |-> Len(handed), seq |-> None, audio |-> <<>>]

\* backend.py:183-189: the one chunk of an utterance
Chunk ==
    [name |-> "voice:audio_chunk", utt |-> Len(handed), seq |-> 0,
     audio |-> b64encode(pcm_to_wav(captured_audio))]

\* a lock that excludes nobody
TokenLockFree_Always == TRUE

\* backend.py:290, 311, 330, 336: threading.Lock can be acquired
TokenLockFree == lock = "free"

\* backend.py:292, with now the clock's reading at this instant
CachedFresh == token # None /\ token_acquired_at < TOKEN_REFRESH_S

\* a send_audio that does not look at the connection
SendRejected_Never == FALSE

\* backend.py:171
SendRejected == ~connected

\* a connect handler that lets the exception of _get_token out
AfterToken_Propagates(t, raised) ==
    IF t = "main" THEN (IF raised THEN "loop" ELSE "sio_connect")
    ELSE IF raised THEN "idle" ELSE "oc_count"

\* where a thread goes on when _get_token returns or raises: connect()
\* returns False (backend.py:144-146), _on_connect logs and goes on
\* (backend.py:320-327)
AfterToken(t, raised) ==
    IF t = "main" THEN (IF raised THEN "loop" ELSE "sio_connect")
    ELSE "oc_count"

\* ---- main(), up to the decision loop

\* __main__.py:58-59
StartCapture ==
    /\ bpc["main"] = "start"
    /\ bpc' = [bpc EXCEPT !["main"] = "connect"]
    /\ UNCHANGED <<connected, token, token_acquired_at, lock, reconnect_count,
                   link, tok_now, attempt, fetch_log, wire,
                   captured_audio, handed, reported, refused>>
    /\ UNCHANGED <<sm_vars, player_vars, main_vars, capture_vars, race_vars, chime_vars, cb_vars, aux_vars>>

\* __main__.py:65, backend.py:133-134: connect() is entered
Connect ==
    /\ bpc["main"] = "connect"
    /\ attempt' = "pending"
    /\ bpc' = [bpc EXCEPT !["main"] = "tok_lock"]
    /\ UNCHANGED <<connected, token, token_acquired_at, lock, reconnect_count,
                   link, tok_now, fetch_log, wire, captured_audio,
                   handed, reported, refused>>
    /\ UNCHANGED <<sm_vars, player_vars, main_vars, capture_vars, race_vars, chime_vars, cb_vars, aux_vars>>

\* ---- _get_token, on thread t

\* backend.py:290
GetTokenLock(t) ==
    /\ bpc[t] = "tok_lock"
    /\ TokenLockFree
    /\ lock' = t
    /\ bpc' = [bpc EXCEPT ![t] = "tok_test"]
    /\ UNCHANGED <<connected, token, token_acquired_at, reconnect_count, link,
                   tok_now, attempt, fetch_log, wire, captured_audio,
                   handed, reported, refused>>
    /\ UNCHANGED <<sm_vars, player_vars, main_vars, capture_vars, race_vars, chime_vars, cb_vars, aux_vars>>

\* backend.py:291-293: the clock is read; a fresh token is returned
GetTokenTest(t) ==
    /\ bpc[t] = "tok_test"
    /\ IF CachedFresh
       THEN /\ lock' = "free"
            /\ bpc' = [bpc EXCEPT ![t] = AfterToken(t, FALSE)]
            /\ UNCHANGED tok_now
       ELSE /\ tok_now' = [tok_now EXCEPT ![t] = 0]
            /\ bpc' = [bpc EXCEPT ![t] = "tok_post"]
            /\ UNCHANGED lock
    /\ UNCHANGED <<connected, token, token_acquired_at, reconnect_count, link,
                   attempt, fetch_log, wire, captured_audio, handed,
                   reported, refused>>
    /\ UNCHANGED <<sm_vars, player_vars, main_vars, capture_vars, race_vars, chime_vars, cb_vars, aux_vars>>

\* backend.py:295-304: the login request; it answers with a token, or it
\* fails (no route, timeout, HTTP error) and the exception leaves _get_token
GetTokenPost(t) ==
    /\ bpc[t] = "tok_post"
    /\ fetch_log' = Append(fetch_log, [by |-> t, fresh |-> CachedFresh])
    /\ \E answered \in BOOLEAN :
          /\ IF answered
             THEN /\ token' = Len(fetch_log) + 1
                  /\ token_acquired_at' = tok_now[t]
             ELSE UNCHANGED <<token, token_acquired_at>>
          /\ bpc' = [bpc EXCEPT ![t] = AfterToken(t, ~answered)]
          /\ attempt' = IF t = "main" /\ ~answered THEN "failed" ELSE attempt
    /\ lock' = "free"
    /\ tok_now' = [tok_now EXCEPT ![t] = None]
    /\ UNCHANGED <<connected, reconnect_count, link, wire, captured_audio,
                   handed, reported, refused>>
    /\ UNCHANGED <<sm_vars, player_vars, main_vars, capture_vars, race_vars, chime_vars, cb_vars, aux_vars>>

get_token == \E t \in Threads : GetTokenLock(t) \/ GetTokenTest(t) \/ GetTokenPost(t)

\* ---- the transport

\* backend.py:81-95: the client runs each handler it dispatches on
\* a thread of its own; the threads are interchangeable, and the handler is
\* followed on the first one that runs none
FreeHandler(h) ==
    /\ bpc[h] = "idle"
    /\ h = "h2" => bpc["h1"] # "idle"

\* backend.py:135-146: sio.connect(wait=True, wait_timeout=10) returns once
\* the namespace is connected (the connect handler is dispatched) or raises
\* (connect_error is dispatched); connect() returns and the loop begins
SioConnect ==
    /\ bpc["main"] = "sio_connect"
    /\ \E h \in Handlers, ok \in BOOLEAN :
          /\ FreeHandler(h)
          /\ link' = ok
          /\ attempt' = IF ok THEN "ok" ELSE "failed"
          /\ bpc' = [bpc EXCEPT !["main"] = "loop",
                                ![h] = IF ok THEN "oc_set" ELSE "od_set"]
    /\ UNCHANGED <<connected, token, token_acquired_at, lock, reconnect_count,
                   tok_now, fetch_log, wire, captured_audio, handed,
                   reported, refused>>
    /\ UNCHANGED <<sm_vars, player_vars, main_vars, capture_vars, race_vars, chime_vars, cb_vars, aux_vars>>

\* the connection is lost: the disconnect handler is dispatched
LinkDown ==
    /\ link
    /\ \E h \in Handlers :
          /\ FreeHandler(h)
          /\ bpc' = [bpc EXCEPT ![h] = "od_set"]
    /\ link' = FALSE
    /\ UNCHANGED <<connected, token, token_acquired_at, lock, reconnect_count,
                   tok_now, attempt, fetch_log, wire, captured_audio,
                   handed, reported, refused>>
    /\ UNCHANGED <<sm_vars, player_vars, main_vars, capture_vars, race_vars, chime_vars, cb_vars, aux_vars>>

\* backend.py:81-88: the client reconnects a connection it has lost
LinkUp ==
    /\ ~link
    /\ attempt = "ok"
    /\ reconnect_count < MaxConnects
    /\ \E h \in Handlers :
          /\ FreeHandler(h)
          /\ bpc' = [bpc EXCEPT ![h] = "oc_set"]
    /\ link' = TRUE
    /\ UNCHANGED <<connected, token, token_acquired_at, lock, reconnect_count,
                   tok_now, attempt, fetch_log, wire, captured_audio,
                   handed, reported, refused>>
    /\ UNCHANGED <<sm_vars, player_vars, main_vars, capture_vars, race_vars, chime_vars, cb_vars, aux_vars>>

\* ---- the handlers, on thread h

\* backend.py:311-313
OnConnectSet(h) ==
    /\ bpc[h] = "oc_set"
    /\ TokenLockFree
    /\ connected' = TRUE
    /\ bpc' = [bpc EXCEPT ![h] = "oc_test"]
    /\ UNCHANGED <<token, token_acquired_at, lock, reconnect_count, link,
                   tok_now, attempt, fetch_log, wire, captured_audio,
                   handed, reported, refused>>
    /\ UNCHANGED <<sm_vars, player_vars, main_vars, capture_vars, race_vars, chime_vars, cb_vars, aux_vars>>

\* backend.py:315-325
OnConnectTest(h) ==
    /\ bpc[h] = "oc_test"
    /\ bpc' = [bpc EXCEPT ![h] = IF reconnect_count > 0 THEN "tok_lock"
                                 ELSE "oc_count"]
    /\ UNCHANGED <<connected, token, token_acquired_at, lock, reconnect_count,
                   link, tok_now, attempt, fetch_log, wire,
                   captured_audio, handed, reported, refused>>
    /\ UNCHANGED <<sm_vars, player_vars, main_vars, capture_vars, race_vars, chime_vars, cb_vars, aux_vars>>

\* backend.py:327
OnConnectCount(h) ==
    /\ bpc[h] = "oc_count"
    /\ reconnect_count' = reconnect_count + 1
    /\ bpc' = [bpc EXCEPT ![h] = "idle"]
    /\ UNCHANGED <<connected, token, token_acquired_at, lock, link, tok_now,
                   attempt, fetch_log, wire, captured_audio, handed,
                   reported, refused>>
    /\ UNCHANGED <<sm_vars, player_vars, main_vars, capture_vars, race_vars, chime_vars, cb_vars, aux_vars>>

on_connect == \E h \in Handlers : OnConnectSet(h) \/ OnConnectTest(h) \/ OnConnectCount(h)

\* backend.py:329-338: _on_disconnect and _on_connect_error
on_disconnect ==
    \E h \in Handlers :
        /\ bpc[h] = "od_set"
        /\ TokenLockFree
        /\ connected' = FALSE
        /\ bpc' = [bpc EXCEPT ![h] = "idle"]
        /\ UNCHANGED <<token, token_acquired_at, lock, reconnect_count, link,
                       tok_now, attempt, fetch_log, wire,
                       captured_audio, handed, reported, refused>>
        /\ UNCHANGED <<sm_vars, player_vars, main_vars, capture_vars, race_vars, chime_vars, cb_vars, aux_vars>>

\* ---- send_audio, on the main thread

\* backend.py:165-175
send_audio(audio) ==
    /\ bpc["main"] = "loop"
    /\ Len(handed) < MaxUtterances
    /\ handed' = Append(handed, audio)
    /\ captured_audio' = audio
    /\ IF SendRejected
       THEN /\ refused' = Append(refused, Len(handed) + 1)
            /\ UNCHANGED bpc
       ELSE /\ bpc' = [bpc EXCEPT !["main"] = "send_start"]
            /\ UNCHANGED refused
    /\ UNCHANGED <<connected, token, token_acquired_at, lock, reconnect_count,
                   link, tok_now, attempt, fetch_log, wire, reported>>
    /\ UNCHANGED <<sm_vars, player_vars, main_vars, capture_vars, race_vars, chime_vars, cb_vars, aux_vars>>

SendAudio == \E audio \in Utterances : send_audio(audio)

\* sio.emit at position at: the event is accepted and send_audio goes on at
\* next, or (namespace not connected) the call raises, which ends send_audio
\* and the decision loop (__main__.py:155-157)
SioEmit(at, event, next) ==
    /\ bpc["main"] = at
    /\ \E accepted \in {TRUE, link} :
          IF accepted
          THEN /\ wire' = Append(wire, event)
               /\ bpc' = [bpc EXCEPT !["main"] = next]
          ELSE /\ bpc' = [bpc EXCEPT !["main"] = "exit"]
               /\ UNCHANGED wire
    /\ UNCHANGED <<connected, token, token_acquired_at, lock, reconnect_count,
                   link, tok_now, attempt, fetch_log, captured_audio,
                   handed, reported, refused>>
    /\ UNCHANGED <<sm_vars, player_vars, main_vars, capture_vars, race_vars, chime_vars, cb_vars, aux_vars>>

\* backend.py:178-180
EmitStart == SioEmit("send_start", Signal("voice:audio_start"), "send_chunk")

\* backend.py:183-189
EmitChunk == SioEmit("send_chunk", Chunk, "send_end")

\* backend.py:192-194
EmitEnd == SioEmit("send_end", Signal("voice:audio_end"), "send_report")

\* backend.py:196-203: "Sent ... audio to backend"
SendReport ==
    /\ bpc["main"] = "send_report"
    /\ reported' = Append(reported, Len(handed))
    /\ bpc' = [bpc EXCEPT !["main"] = "loop"]
    /\ UNCHANGED <<connected, token, token_acquired_at, lock, reconnect_count,
                   link, tok_now, attempt, fetch_log, wire,
                   captured_audio, handed, refused>>
    /\ UNCHANGED <<sm_vars, player_vars, main_vars, capture_vars, race_vars, chime_vars, cb_vars, aux_vars>>

\* ---- the clock: TokenClockStep seconds pass.  A login request lasts
\* seconds (timeout=10), so no step of this clock falls inside one.
BackendTick ==
    /\ token_acquired_at < TOKEN_REFRESH_S + TokenClockStep
    /\ \A t \in Threads : tok_now[t] = None
    /\ token_acquired_at' =
          Min(token_acquired_at + TokenClockStep, TOKEN_REFRESH_S + TokenClockStep)
    /\ UNCHANGED tok_now
    /\ UNCHANGED <<connected, token, lock, reconnect_count, link, bpc, attempt,
                   fetch_log, wire, captured_audio, handed, reported,
                   refused>>
    /\ UNCHANGED <<sm_vars, player_vars, main_vars, capture_vars, race_vars, chime_vars, cb_vars, aux_vars>>

\* ---- the end of main (__main__.py:71-79, 91-92, 155-163)

\* the positions of main inside the try block
InTry == {"loop", "send_start", "send_chunk", "send_end", "send_report"}

\* __main__.py:73-79  SIGINT or SIGTERM arrives once the handler is installed
handle_signal ==
    /\ bpc["main"] \in InTry
    /\ ~shutdown
    /\ shutdown' = TRUE
    /\ UNCHANGED <<exit_code, shutdown_event, teardown>>
    /\ UNCHANGED <<sm_vars, player_vars, main_vars, capture_vars, backend_vars, race_vars, chime_vars, cb_vars, loop_vars, health_vars, display_vars>>

\* __main__.py:92  while not shutdown: the loop is left for the finally block
LoopExit ==
    /\ bpc["main"] = "loop"
    /\ shutdown
    /\ bpc' = [bpc EXCEPT !["main"] = "finally"]
    /\ UNCHANGED <<connected, token, token_acquired_at, lock, reconnect_count,
                   link, tok_now, attempt, fetch_log, wire, captured_audio,
                   handed, reported, refused>>
    /\ UNCHANGED <<sm_vars, player_vars, main_vars, capture_vars, race_vars, chime_vars, cb_vars, aux_vars>>

\* __main__.py:155-157  except Exception: sys.exit(1), which runs the
\* finally block on its way out
FatalExit ==
    /\ bpc["main"] = "exit"
    /\ exit_code' = 1
    /\ bpc' = [bpc EXCEPT !["main"] = "finally"]
    /\ UNCHANGED <<shutdown, shutdown_event, teardown>>
    /\ UNCHANGED <<connected, token, token_acquired_at, lock, reconnect_count,
                   link, tok_now, attempt, fetch_log, wire, captured_audio,
                   handed, reported, refused>>
    /\ UNCHANGED <<sm_vars, player_vars, main_vars, capture_vars, race_vars, chime_vars, cb_vars, loop_vars, health_vars, display_vars>>

\* __main__.py:159-160, backend.py:148-163  backend.disconnect(): the
\* shutdown event is set, the health thread, if there is one, is waited for
\* for at most 5 s, the client disconnects (the disconnect handler is
\* dispatched) and whatever it raises is swallowed
disconnect ==
    /\ bpc["main"] = "finally"
    /\ shutdown_event' = TRUE
    /\ link' = FALSE
    /\ IF link
       THEN \E h \in Handlers :
               /\ FreeHandler(h)
               /\ bpc' = [bpc EXCEPT !["main"] = "finally_stop", ![h] = "od_set"]
       ELSE bpc' = [bpc EXCEPT !["main"] = "finally_stop"]
    /\ teardown' = Append(teardown, "backend.disconnect")
    /\ UNCHANGED <<shutdown, exit_code>>
    /\ UNCHANGED <<connected, token, token_acquired_at, lock, reconnect_count,
                   tok_now, attempt, fetch_log, wire, captured_audio,
                   handed, reported, refused>>
    /\ UNCHANGED <<sm_vars, player_vars, main_vars, capture_vars, race_vars, chime_vars, cb_vars, loop_vars, health_vars, display_vars>>

\* __main__.py:161-162  capture.stop()
FinallyStop ==
    /\ bpc["main"] = "finally_stop"
    /\ capture_stop

\* __main__.py:162-163  capture.stop() has returned: main ends
FinallyEnd ==
    /\ bpc["main"] = "finally_stop"
    /\ cap_stop_pc = "idle"
    /\ ~cap_started
    /\ teardown' = Append(teardown, "capture.stop")
    /\ bpc' = [bpc EXCEPT !["main"] = "ended"]
    /\ UNCHANGED <<shutdown, exit_code, shutdown_event>>
    /\ UNCHANGED <<connected, token, token_acquired_at, lock, reconnect_count,
                   link, tok_now, attempt, fetch_log, wire, captured_audio,
                   handed, reported, refused>>
    /\ UNCHANGED <<sm_vars, player_vars, main_vars, capture_vars, race_vars, chime_vars, cb_vars, loop_vars, health_vars, display_vars>>

\* ---- the health monitor (backend.py:244-282)

\* backend.py:125, 244-251  start() starts the health thread
start_health_monitor ==
    /\ health_pc = "none"
    /\ bpc["main"] = "connect"
    /\ health_pc' = "wait"
    /\ since_tick' = 0
    /\ UNCHANGED <<last_pong_time, ticks, pings, tick_connected, tick_warned>>
    /\ UNCHANGED <<sm_vars, player_vars, main_vars, capture_vars, backend_vars, race_vars, chime_vars, cb_vars, loop_vars, shutdown_vars, display_vars>>

\* backend.py:256-257  if not self._connected: continue
PingSkipped == ~connected

\* backend.py:255-267  the wait returns: the event is set and the thread
\* ends, or the interval is over and, when connected, voice:ping is emitted
\* (an emit that raises is logged and passed over)
HealthWait ==
    /\ health_pc = "wait"
    /\ IF shutdown_event
       THEN /\ health_pc' = "exited"
            /\ UNCHANGED <<since_tick, ticks, pings, tick_connected>>
       ELSE /\ since_tick >= BACKEND_PING_INTERVAL_S
            /\ ticks < MaxTicks
            /\ ticks' = ticks + 1
            /\ since_tick' = 0
            /\ tick_connected' = connected
            /\ pings' = IF PingSkipped THEN pings ELSE pings + 1
            /\ health_pc' = IF PingSkipped THEN "wait" ELSE "check"
    /\ UNCHANGED <<last_pong_time, tick_warned>>
    /\ UNCHANGED <<sm_vars, player_vars, main_vars, capture_vars, backend_vars, race_vars, chime_vars, cb_vars, loop_vars, shutdown_vars, display_vars>>

\* a monitor that warns from the threshold on
Stale_FromThreshold(since_pong) == since_pong >= BACKEND_PING_TIMEOUT_S

\* backend.py:272  since_pong > BACKEND_PING_TIMEOUT_S
Stale(since_pong) == since_pong > BACKEND_PING_TIMEOUT_S

\* backend.py:269-277  the stale test, made only once a pong has been received
HealthCheck ==
    /\ health_pc = "check"
    /\ tick_warned' = (last_pong_time # None /\ Stale(last_pong_time))
    /\ health_pc' = "wait"
    /\ UNCHANGED <<last_pong_time, since_tick, ticks, pings, tick_connected>>
    /\ UNCHANGED <<sm_vars, player_vars, main_vars, capture_vars, backend_vars, race_vars, chime_vars, cb_vars, loop_vars, shutdown_vars, display_vars>>

health_loop == HealthWait \/ HealthCheck

\* backend.py:279-282  voice:pong arrives over the connection
on_pong ==
    /\ link
    /\ last_pong_time # 0
    /\ last_pong_time' = 0
    /\ UNCHANGED <<health_pc, since_tick, ticks, pings, tick_connected,
                   tick_warned>>
    /\ UNCHANGED <<sm_vars, player_vars, main_vars, capture_vars, backend_vars, race_vars, chime_vars, cb_vars, loop_vars, shutdown_vars, display_vars>>

\* HealthStep seconds pass.  The wait of the health thread ends when its
\* interval is over; the body of its loop takes no time on this scale.
HealthClock ==
    /\ health_pc = "wait" => since_tick < BACKEND_PING_INTERVAL_S
    /\ health_pc # "check"
    /\ \/ health_pc = "wait"
       \/ last_pong_time \notin {None, BACKEND_PING_TIMEOUT_S + HealthStep}
    /\ since_tick' = IF health_pc = "wait" THEN since_tick + HealthStep
                     ELSE since_tick
    /\ last_pong_time' = IF last_pong_time = None THEN None
                         ELSE Min(last_pong_time + HealthStep,
                                  BACKEND_PING_TIMEOUT_S + HealthStep)
    /\ UNCHANGED <<health_pc, ticks, pings, tick_connected, tick_warned>>
    /\ UNCHANGED <<sm_vars, player_vars, main_vars, capture_vars, backend_vars, race_vars, chime_vars, cb_vars, loop_vars, shutdown_vars, display_vars>>

\* the client started with start(): the connection is made and may be lost,
\* pongs arrive or not, and the daemon is shut down
HealthNext ==
    \/ StartCapture
    \/ start_health_monitor
    \/ Connect
    \/ get_token
    \/ SioConnect
    \/ LinkDown
    \/ on_connect
    \/ on_disconnect
    \/ health_loop
    \/ on_pong
    \/ HealthClock
    \/ handle_signal
    \/ LoopExit
    \/ disconnect

\* the daemon from its start to its end: a signal may arrive, the connection
\* may drop
ShutdownNext ==
    \/ StartCapture
    \/ Connect
    \/ get_token
    \/ SioConnect
    \/ LinkDown
    \/ on_connect
    \/ on_disconnect
    \/ (~shutdown /\ SendAudio)
    \/ EmitStart
    \/ EmitChunk
    \/ EmitEnd
    \/ SendReport
    \/ handle_signal
    \/ LoopExit
    \/ FatalExit
    \/ disconnect
    \/ FinallyStop
    \/ FinallyEnd

BackendNext ==
    \/ StartCapture
    \/ Connect
    \/ get_token
    \/ SioConnect
    \/ LinkDown
    \/ LinkUp
    \/ on_connect
    \/ on_disconnect
    \/ SendAudio
    \/ EmitStart
    \/ EmitChunk
    \/ EmitEnd
    \/ SendReport
    \/ BackendTick

\* the daemon's start: the capture thread runs from capture.start() on, the
\* decision loop takes frames once main has reached it
StartupNext ==
    \/ StartCapture
    \/ Connect
    \/ get_token
    \/ SioConnect
    \/ on_connect
    \/ on_disconnect
    \/ (bpc["main"] # "start" /\ capture_loop)
    \/ (bpc["main"] = "loop" /\ get_frame /\ UNCHANGED loop_pc)

----------------------------------------------------------------------------
(* CaptureStateMachine under two threads: the decision thread inside        *)
(* on_frame, statement by statement, and a callback thread (the player's    *)
(* on_playback_done, speaker.py:317-319) calling on_tts_done.  The class    *)
(* has no lock.  No time passes while a call is under way.                  *)

NoSnap == [state |-> "none", buffer |-> <<>>, last_speech_time |-> 0]

NoOutcome ==
    [state |-> "none", buffer |-> <<>>, ret |-> NoRet, snap |-> NoSnap,
     args |-> <<>>]

RaceIdle ==
    /\ frame_pc = "idle"
    /\ tts_pc = "idle"
    /\ frame_args = <<>>
    /\ joined = <<>>
    /\ snap = NoSnap
    /\ overlap = FALSE
    /\ outcome = NoOutcome

NoCall == frame_pc = "idle" /\ tts_pc = "idle"

\* the fields as a call finds them when no other call is under way
Snapshot ==
    IF NoCall
    THEN [state |-> state, buffer |-> capture_buffer,
          last_speech_time |-> last_speech_time]
    ELSE snap

\* on_frame returns retval, leaving newstate and newbuffer behind; when
\* on_tts_done ran during the call and has returned too, the pair's result is
\* kept
FrameReturn(retval, newstate, newbuffer) ==
    /\ ret' = retval
    /\ frame_pc' = "idle"
    /\ joined' = <<>>
    /\ outcome' = IF overlap /\ tts_pc = "idle"
                  THEN [state |-> newstate, buffer |-> newbuffer,
                        ret |-> retval, snap |-> snap, args |-> frame_args]
                  ELSE outcome
    /\ overlap' = (overlap /\ tts_pc # "idle")

\* state_machine.py:94-95; a call begins while at most one other call is
\* under way
FrameEnter(frame, is_speech) ==
    /\ frame_pc = "idle"
    /\ ~overlap
    /\ state = "CAPTURING" => Len(capture_buffer) < MaxCapture
    /\ ev' = [op |-> "on_frame", arg |-> <<frame, is_speech>>]
    /\ snap' = Snapshot
    /\ frame_args' = <<frame, is_speech>>
    /\ overlap' = (tts_pc # "idle")
    /\ outcome' = NoOutcome
    /\ IF FrameRejected
       THEN /\ ret' = NoRet
            /\ UNCHANGED frame_pc
       ELSE /\ frame_pc' = "append"
            /\ UNCHANGED ret
    /\ UNCHANGED <<state, capture_buffer, last_speech_time, capture_start_time,
                   conversation_start, fed, abandoned, tts_pc, joined>>
    /\ UNCHANGED <<player_vars, main_vars, capture_vars, backend_vars, chime_vars, cb_vars, aux_vars>>

\* state_machine.py:99
FrameAppend ==
    /\ frame_pc = "append"
    /\ capture_buffer' = Buffered(frame_args[1], frame_args[2])
    /\ fed' = fed \o frame_args[1]
    /\ frame_pc' = "stamp"
    /\ UNCHANGED <<state, last_speech_time, capture_start_time,
                   conversation_start, ev, ret, abandoned, tts_pc, frame_args, joined,
                   snap, overlap, outcome>>
    /\ UNCHANGED <<player_vars, main_vars, capture_vars, backend_vars, chime_vars, cb_vars, aux_vars>>

\* state_machine.py:101-106
FrameStamp ==
    /\ frame_pc = "stamp"
    /\ last_speech_time' = SilenceDuration(frame_args[2])
    /\ IF SilenceTimedOut(frame_args[2])
       THEN /\ frame_pc' = "join"
            /\ UNCHANGED <<ret, outcome, overlap, joined>>
       ELSE FrameReturn(NoRet, state, capture_buffer)
    /\ UNCHANGED <<state, capture_buffer, capture_start_time,
                   conversation_start, ev, fed, abandoned, tts_pc, frame_args, snap>>
    /\ UNCHANGED <<player_vars, main_vars, capture_vars, backend_vars, chime_vars, cb_vars, aux_vars>>

\* state_machine.py:109
FrameJoin ==
    /\ frame_pc = "join"
    /\ joined' = Finalized(capture_buffer)
    /\ frame_pc' = "set_state"
    /\ UNCHANGED <<state, capture_buffer, last_speech_time, capture_start_time,
                   conversation_start, ev, ret, fed, abandoned, tts_pc, frame_args, snap,
                   overlap, outcome>>
    /\ UNCHANGED <<player_vars, main_vars, capture_vars, backend_vars, chime_vars, cb_vars, aux_vars>>

\* state_machine.py:117
FrameSetState ==
    /\ frame_pc = "set_state"
    /\ state' = "IDLE"
    /\ frame_pc' = "clear"
    /\ UNCHANGED <<capture_buffer, last_speech_time, capture_start_time,
                   conversation_start, ev, ret, fed, abandoned, tts_pc, frame_args,
                   joined, snap, overlap, outcome>>
    /\ UNCHANGED <<player_vars, main_vars, capture_vars, backend_vars, chime_vars, cb_vars, aux_vars>>

\* state_machine.py:118-119
FrameClear ==
    /\ frame_pc = "clear"
    /\ capture_buffer' = <<>>
    /\ FrameReturn(<<joined>>, state, <<>>)
    /\ UNCHANGED <<state, last_speech_time, capture_start_time,
                   conversation_start, ev, fed, abandoned, tts_pc, frame_args, snap>>
    /\ UNCHANGED <<player_vars, main_vars, capture_vars, backend_vars, chime_vars, cb_vars, aux_vars>>

\* state_machine.py:143
TtsSetState ==
    /\ tts_pc = "idle"
    /\ ~overlap
    /\ state' = "CONVERSATION"
    /\ tts_pc' = "stamp"
    /\ snap' = Snapshot
    /\ overlap' = (frame_pc # "idle")
    /\ outcome' = NoOutcome
    /\ abandoned' = (abandoned \/ Abandons)
    /\ UNCHANGED <<capture_buffer, last_speech_time, capture_start_time,
                   conversation_start, ev, ret, fed, frame_pc, frame_args,
                   joined>>
    /\ UNCHANGED <<player_vars, main_vars, capture_vars, backend_vars, chime_vars, cb_vars, aux_vars>>

\* state_machine.py:144
TtsStamp ==
    /\ tts_pc = "stamp"
    /\ conversation_start' = 0
    /\ tts_pc' = "idle"
    /\ outcome' = IF overlap /\ frame_pc = "idle"
                  THEN [state |-> state, buffer |-> capture_buffer,
                        ret |-> ret, snap |-> snap, args |-> frame_args]
                  ELSE outcome
    /\ overlap' = (overlap /\ frame_pc # "idle")
    /\ UNCHANGED <<state, capture_buffer, last_speech_time, capture_start_time,
                   ev, ret, fed, abandoned, frame_pc, frame_args, joined, snap>>
    /\ UNCHANGED <<player_vars, main_vars, capture_vars, backend_vars, chime_vars, cb_vars, aux_vars>>

RaceFrame ==
    \/ \E frame \in Frames, is_speech \in BOOLEAN : FrameEnter(frame, is_speech)
    \/ FrameAppend
    \/ FrameStamp
    \/ FrameJoin
    \/ FrameSetState
    \/ FrameClear

RaceTtsDone == TtsSetState \/ TtsStamp

RaceNext ==
    \/ (NoCall /\ WakeWord)
    \/ (NoCall /\ SMTick)
    \/ RaceFrame
    \/ RaceTtsDone

----------------------------------------------------------------------------
(* The display daemon (src/jarvis-display/display_daemon.py).  One request  *)
(* is handled at a time: each action is one request, from its route to its   *)
(* answer.  The screen is the set of mpv windows that are mapped and the     *)
(* Chromium process the daemon has launched.                                 *)

\* the mpv camera windows on the display
MpvWindows == {"w1", "w2"}

\* display_daemon.py:39, and the pages /display/show is asked for
HUD_URL == "hud.html"

Urls == {"", "page.html", "other.html"}

HudStates == {"listening", "talking", "idle", "other"}

\* display_daemon.py:41-54, with the camera windows on the screen
DisplayIdle ==
    /\ display_mode = "camera"
    /\ display_hud_state = "None"
    /\ mpv_window_ids = {}
    /\ chromium_url = "None"
    /\ chromium_proc = "None"
    /\ current_hud_state = "idle"
    /\ mpv_visible = MpvWindows
    /\ response = 0
    /\ xdotool_failed = FALSE

\* display_daemon.py:213-216
is_chromium_running == chromium_proc = "running"

\* display_daemon.py:168-191  launch_chromium: navigates when Chromium runs;
\* else Popen starts the process, which may exit at once, or raises (no
\* binary): launched is "running", "dead" or "raised"
Launched(launched) ==
    IF is_chromium_running THEN "running" ELSE launched

\* display_daemon.py:266-270
update_state(new_mode, hud_state, url) ==
    /\ display_mode' = new_mode
    /\ display_hud_state' = hud_state
    /\ chromium_url' = url

\* display_daemon.py:136-148  hide_mpv_windows: xdotool minimizes each
\* window it finds, except those for which it times out (minimized is the
\* set for which it did not), and all the windows found are returned
Hidden(minimized) == mpv_visible \ minimized

\* display_daemon.py:151-165  restore_mpv_windows: xdotool maps each window
\* of window_ids, except those for which it times out
Restored(window_ids, mapped) == mpv_visible \cup (window_ids \cap mapped)

\* display_daemon.py:282-289, 305-311  the branch of camera mode: the mpv
\* windows are minimized and remembered, Chromium is launched; an exception
\* of Popen leaves the transition there and the request is answered 500
FromCamera(launched, new_mode, hud_state, url) ==
    /\ \E minimized \in SUBSET MpvWindows :
          /\ mpv_visible' = Hidden(minimized)
          /\ xdotool_failed' = (xdotool_failed \/ minimized # MpvWindows)
    /\ mpv_window_ids' = MpvWindows
    /\ IF Launched(launched) = "raised"
       THEN /\ response' = 500
            /\ UNCHANGED <<display_mode, display_hud_state, chromium_url,
                           chromium_proc, current_hud_state>>
       ELSE /\ chromium_proc' = Launched(launched)
            /\ response' = 200
            /\ update_state(new_mode, hud_state, url)
            /\ current_hud_state' = IF new_mode = "hud" THEN hud_state
                                    ELSE current_hud_state

\* display_daemon.py:273-301  transition_to_hud
transition_to_hud(hud_state, launched) ==
    /\ IF display_mode = "camera"
       THEN FromCamera(launched, "hud", hud_state, HUD_URL)
       ELSE /\ current_hud_state' = hud_state
            /\ update_state("hud", hud_state, HUD_URL)
            /\ response' = 200
            /\ UNCHANGED <<mpv_window_ids, chromium_proc, mpv_visible,
                           xdotool_failed>>
    /\ UNCHANGED <<sm_vars, player_vars, main_vars, capture_vars, backend_vars, race_vars, chime_vars, cb_vars, loop_vars, shutdown_vars, health_vars>>

\* display_daemon.py:365-373  POST /display/hud
route_hud ==
    \E s \in HudStates, launched \in {"running", "dead", "raised"} :
        transition_to_hud(IF s = "other" THEN "listening" ELSE s, launched)

\* display_daemon.py:304-315  transition_to_browser
transition_to_browser(url, launched) ==
    /\ IF display_mode = "camera"
       THEN FromCamera(launched, "browser", "None", url)
       ELSE /\ update_state("browser", "None", url)
            /\ response' = 200
            /\ UNCHANGED <<mpv_window_ids, chromium_proc, current_hud_state,
                           mpv_visible, xdotool_failed>>
    /\ UNCHANGED <<sm_vars, player_vars, main_vars, capture_vars, backend_vars, race_vars, chime_vars, cb_vars, loop_vars, shutdown_vars, health_vars>>

\* display_daemon.py:376-384  POST /display/show: 400 without a url
route_show ==
    \E url \in Urls, launched \in {"running", "dead", "raised"} :
        IF url = ""
        THEN /\ response' = 400
             /\ UNCHANGED <<display_mode, display_hud_state, mpv_window_ids,
                            chromium_url, chromium_proc, current_hud_state,
                            mpv_visible, xdotool_failed>>
             /\ UNCHANGED <<sm_vars, player_vars, main_vars, capture_vars, backend_vars, race_vars, chime_vars, cb_vars, loop_vars, shutdown_vars, health_vars>>
        ELSE transition_to_browser(url, launched)

\* display_daemon.py:318-332  transition_to_camera: nothing in camera mode;
\* else Chromium is closed, the remembered windows (or, when none is
\* remembered, the ones xdotool finds) are mapped again
transition_to_camera ==
    /\ response' = 200
    /\ IF display_mode = "camera"
       THEN UNCHANGED <<display_mode, display_hud_state, mpv_window_ids,
                        chromium_url, chromium_proc, current_hud_state,
                        mpv_visible, xdotool_failed>>
       ELSE /\ chromium_proc' = "None"
            /\ \E mapped \in SUBSET MpvWindows :
                  /\ mpv_visible' =
                        Restored(IF mpv_window_ids # {} THEN mpv_window_ids
                                 ELSE MpvWindows, mapped)
                  /\ xdotool_failed' = (xdotool_failed \/ mapped # MpvWindows)
            /\ update_state("camera", "None", "None")
            /\ mpv_window_ids' = {}
            /\ current_hud_state' = "idle"
    /\ UNCHANGED <<sm_vars, player_vars, main_vars, capture_vars, backend_vars, race_vars, chime_vars, cb_vars, loop_vars, shutdown_vars, health_vars>>

\* display_daemon.py:387-391  POST /display/restore
route_restore == transition_to_camera

\* the Chromium process ends by itself (display_daemon.py:216 poll())
ChromiumExits ==
    /\ chromium_proc = "running"
    /\ chromium_proc' = "dead"
    /\ UNCHANGED <<display_mode, display_hud_state, mpv_window_ids,
                   chromium_url, current_hud_state, mpv_visible, response,
                   xdotool_failed>>
    /\ UNCHANGED <<sm_vars, player_vars, main_vars, capture_vars, backend_vars, race_vars, chime_vars, cb_vars, loop_vars, shutdown_vars, health_vars>>

DisplayNext ==
    \/ route_hud
    \/ route_show
    \/ route_restore
    \/ ChromiumExits

----------------------------------------------------------------------------
(* The capture thread and the decision loop together (__main__.py:93-131):  *)
(* the frames the loop sees are the ones get_frame delivers, the pre-roll    *)
(* is the one drain_preroll returns while the capture thread keeps running. *)

\* __main__.py:95-97  frame = capture.get_frame(); None: next iteration
LoopGet ==
    /\ loop_pc = "get"
    /\ get_frame
    /\ loop_pc' = IF frame_queue = <<>> THEN "get" ELSE "decide"

\* the frame the iteration holds
LoopFrame == delivered[Len(delivered)]

\* __main__.py:99-106  the VAD hears speech and the detector hits: the
\* pre-roll is drained next
LoopHit ==
    /\ loop_pc = "decide"
    /\ \E is_speech \in BOOLEAN, detected \in BOOLEAN :
           WakeDetected(is_speech, detected)
    /\ loop_pc' = "drain"
    /\ UNCHANGED <<sm_vars, verdict_vars, player_vars, capture_vars,
                   backend_vars, race_vars, chime_vars, cb_vars, aux_vars>>

\* __main__.py:108  preroll = capture.drain_preroll()
LoopDrain ==
    /\ loop_pc = "drain"
    /\ drain_preroll
    /\ loop_pc' = IF cons_pc = "drain_return" THEN "wake" ELSE "drain"

\* __main__.py:109-114  state.on_wake_word(preroll), the detector is reset
LoopWake ==
    /\ loop_pc = "wake"
    /\ main(LoopFrame, TRUE, TRUE, drain_data)
    /\ loop_pc' = "get"

\* __main__.py:99-105, 116-131  an iteration without a hit
LoopFrameSeen ==
    /\ loop_pc = "decide"
    /\ \E is_speech \in BOOLEAN, detected \in BOOLEAN :
        /\ ~WakeDetected(is_speech, detected)
        /\ main(LoopFrame, is_speech, detected, <<>>)
    /\ loop_pc' = "get"

PipelineNext ==
    \/ capture_loop
    \/ LoopGet
    \/ LoopHit
    \/ LoopDrain
    \/ LoopWake
    \/ LoopFrameSeen
    \/ SMTick

----------------------------------------------------------------------------
(* Specifications *)

InitSM ==
    /\ state = "IDLE"
    /\ capture_buffer = <<>>
    \* the three stamps start at 0.0: their age is the clock's own reading
    /\ \E up \in 0..(CONVERSATION_TIMEOUT_S + 1) :
          /\ last_speech_time = Min(up, SILENCE_TIMEOUT_S + 1)
          /\ capture_start_time = Min(up, SILENCE_TIMEOUT_S + 1)
          /\ conversation_start = up
    /\ ev = [op |-> "init", arg |-> <<>>]
    /\ ret = NoRet
    /\ fed = <<>>
    /\ abandoned = FALSE
    /\ MainIdle
    /\ PlayerIdle
    /\ CaptureIdle
    /\ BackendIdle
    /\ RaceIdle
    /\ ChimeIdle
    /\ DisplayIdle

\* the state machine driven by any sequence of its calls
SpecSM == InitSM /\ [][SMNext]_vars

\* the daemon's decision thread: frames keep arriving (capture never stops
\* reading the device) and time passes
SpecMain ==
    /\ InitSM
    /\ [][MainNext]_vars
    /\ WF_vars(MainLoop)
    /\ WF_vars(SMTick)

InitPlayer == PlayerIdle /\ SMIdle /\ MainIdle /\ CaptureIdle /\ BackendIdle /\ RaceIdle /\ ChimeIdle /\ DisplayIdle

\* the player: any chunks and sentinels, in any order, and stop()
PlayerNext ==
    \/ Enqueue
    \/ SignalDone
    \/ PlaybackLoop
    \/ Stop
    \/ PlayerTick

SpecPlayer == InitPlayer /\ [][PlayerNext]_vars

\* the player while stop() is not called; the thread is scheduled and time
\* passes
RunningNext ==
    \/ Enqueue
    \/ SignalDone
    \/ PlaybackLoop
    \/ PlayerTick

SpecPlayerFair ==
    /\ InitPlayer
    /\ [][RunningNext]_vars
    /\ WF_vars(PlaybackLoop)
    /\ WF_vars(PlayerTick)

\* one TTS session: a permutation of chunks 0..n-1, then signal_done(n)
SessionNext ==
    \/ SessionEnqueue
    \/ session_done
    \/ PlaybackLoop
    \/ PlayerTick

SpecSession == InitPlayer /\ [][SessionNext]_vars

\* two TTS sessions, one after the other, and the playback thread
SessionsNext ==
    \/ SessionsEnqueue
    \/ sessions_done
    \/ PlaybackLoop
    \/ PlayerTick

SpecSessions == InitPlayer /\ [][SessionsNext]_vars

InitCapture == CaptureIdle /\ SMIdle /\ MainIdle /\ PlayerIdle /\ BackendIdle /\ RaceIdle /\ ChimeIdle /\ DisplayIdle

\* the capture thread and a consumer calling at any time
SpecCapture == InitCapture /\ [][CaptureNext]_vars

\* the capture thread and the thread that drains the pre-roll both run, the
\* device read returns, and stop() may be called.  The ring's lock is held
\* for the length of one drain and drains are a wake word apart: a capture
\* thread waiting for the lock gets it (strong fairness).
CaptureLoopNext ==
    \/ capture_loop
    \/ (drain_preroll /\ UNCHANGED loop_pc)
    \/ capture_stop

SpecCaptureLoop ==
    /\ InitCapture
    /\ [][CaptureLoopNext]_vars
    /\ SF_vars(capture_loop)
    /\ WF_vars(drain_preroll /\ UNCHANGED loop_pc)

InitBackend == BackendIdle /\ SMIdle /\ MainIdle /\ PlayerIdle /\ CaptureIdle /\ RaceIdle /\ ChimeIdle /\ DisplayIdle

\* the backend client: startup, then send_audio, lost and new connections
SpecBackend == InitBackend /\ [][BackendNext]_vars

\* one TTS session and a caller of play_chime
ChimeNext ==
    \/ SessionEnqueue
    \/ session_done
    \/ PlaybackLoop
    \/ PlayerTick
    \/ play_chime

SpecChime == InitPlayer /\ [][ChimeNext]_vars

\* the state machine with a callback thread calling on_tts_done
SpecRace == InitBackend /\ [][RaceNext]_vars

\* the daemon's start, with the capture thread
SpecStartup == InitBackend /\ [][StartupNext]_vars

SpecShutdown == InitBackend /\ [][ShutdownNext]_vars

\* the display daemon answering any sequence of requests
SpecDisplay == InitBackend /\ [][DisplayNext]_vars

\* the capture thread feeding the decision loop
SpecPipeline == InitCapture /\ [][PipelineNext]_vars

\* the health thread runs
SpecHealth ==
    /\ InitBackend
    /\ [][HealthNext]_vars
    /\ WF_vars(health_loop)

----------------------------------------------------------------------------
(* Properties of CaptureStateMachine, checked under SpecSM *)

\* on_frame has just returned bytes
JustFinalized == ev.op = "on_frame" /\ ret # NoRet

\* C4: in every reachable state the capture buffer is non-empty if and only
\* if state = CAPTURING.
C4_BufferNonEmptyIffCapturing ==
    (capture_buffer # <<>>) <=> (state = "CAPTURING")

\* C5: in every reachable state where state is IDLE or CONVERSATION the
\* capture buffer is empty.
C5_OnlyCapturingOwnsBuffer ==
    state \in {"IDLE", "CONVERSATION"} => capture_buffer = <<>>

\* C8: whenever on_frame finalizes an utterance (returns bytes, state IDLE),
\* the time since last_speech_time is at least T_silence and the frame passed
\* to that call was VAD-negative.
C8_FinalizedAfterSilence ==
    JustFinalized =>
        /\ state = "IDLE"
        /\ last_speech_time >= SILENCE_TIMEOUT_S
        /\ ev.arg[2] = FALSE

C8_Witness ==
    /\ JustFinalized
    /\ Len(ret[1]) > 1

C10_RejectedCallsChangeNothing ==
    [][ (\/ ev'.op = "on_wake_word" /\ state # "IDLE"
         \/ ev'.op = "on_frame" /\ state # "CAPTURING")
        => /\ UNCHANGED <<state, capture_buffer, last_speech_time,
                          capture_start_time, conversation_start>>
           /\ ev'.op = "on_frame" => ret' = NoRet ]_vars

C10_Witness ==
    /\ ev.op = "on_wake_word"
    /\ state = "CONVERSATION"
    /\ capture_buffer # <<>>

----------------------------------------------------------------------------
(* Properties of AudioPlayer *)

MicMuted == mixer = "nocap"

Range(seq) == {seq[k] : k \in 1..Len(seq)}

Ascending(seq) ==
    \A j, k \in 1..Len(seq) : j < k => seq[j] < seq[k]

\* <<0, 1, ..., n-1>>
UpTo(n) == [k \in 1..n |-> k - 1]

\* the loop holds a sentinel it has popped and not yet finished
AtSentinel == pc \in {"sentinel", "sentinel_unmute_cmd", "sentinel_unmute_set"}

\* C1 (SpecPlayer): after stop() has returned and the playback thread has
\* exited, the microphone is unmuted, for every interleaving.
C1_UnmutedAfterStop ==
    (stop_pc = "done" /\ ThreadExited) => ~MicMuted

\* C2 (SpecPlayer): whenever the playback loop has finished processing a
\* sentinel, the microphone is unmuted and mic-muted-at is absent.
C2_UnmutedAfterSentinel ==
    pc \in {"finally", "callback"} => (~MicMuted /\ mic_muted_at = None)

C2_Witness ==
    /\ pc = "callback"
    /\ sentinels = 1
    /\ last_unmute_by = "sentinel"
    /\ stop_pc = "idle"

\* C3 (SpecPlayerFair): while the playback thread keeps running, a muted
\* microphone always leads to an unmuted one; without a sentinel the safety
\* timer issues the unmute once mic-muted-at is older than T_mute_safety.
C3_MutedLeadsToUnmuted == MicMuted ~> ~MicMuted

C3_Witness ==
    /\ last_unmute_by = "safety"
    /\ ~MicMuted
    /\ sentinels = 0

\* C6 as stated (SpecPlayer): within one session the indices written are
\* 0, 1, 2, ... with no gap.
C6_WrittenIsZeroOneTwo == written = UpTo(Len(written))

\* C6 as amended (SpecPlayer): within one session the cursor passes the indices
\* 0, 1, 2, ... without a gap and each once; the indices written are strictly
\* ascending, none twice, and those passed without a write are exactly the
\* ones whose decoding gave no PCM.
C6_WrittenAscendingSkippingUndecodable ==
    /\ Ascending(written)
    /\ Range(written) \cup dropped = 0..(next_index - 1)
    /\ Range(written) \cap dropped = {}

C6_Witness ==
    /\ written = <<0, 1>>
    /\ dropped = {}
    /\ 0 \in DOMAIN pending
    /\ n_enq = MaxEnq

\* the payload the session enqueued for index i
SessionData(i) ==
    (CHOOSE it \in Range(sent) : it[1] = i /\ it[3] = "audio")[2]

SessionDecodes(i) == DecodeToPcm(SessionData(i)) # <<>>

\* C7 as stated (SpecSession): every chunk 0..n-1 is written exactly once
\* before the sentinel is processed, and the mic is unmuted exactly once, at
\* the sentinel.
C7_AllWrittenUnmutedAtSentinel ==
    /\ AtSentinel => written = UpTo(item[1])
    /\ sentinels >= 1 => (unmutes = 1 /\ last_unmute_by = "sentinel")

\* C7 as amended (SpecSession, n >= 1): every chunk 0..n-1 that decodes to PCM
\* is written exactly once, in index order, before the sentinel is processed;
\* the mic is unmuted exactly once, at the sentinel or, when it had been muted
\* for longer than T_mute_safety, by the safety timer before it.
C7_DecodableWrittenUnmutedOnce ==
    /\ AtSentinel => written = SelectSeq(UpTo(item[1]), SessionDecodes)
    /\ unmutes <= 1
    /\ sentinels >= 1 =>
          (unmutes = 1 /\ last_unmute_by \in {"sentinel", "safety"})

C7_Witness ==
    /\ pc = "sentinel_unmute_set"
    /\ written = <<0, 1, 2>>
    /\ sent[1][1] = 2
    /\ sent[2][1] = 0
    /\ unmutes = 1

----------------------------------------------------------------------------
(* The transition table of CaptureStateMachine, checked under SpecSM *)

States == {"IDLE", "CAPTURING", "CONVERSATION"}

\* the calls that are events of the transition table
Events == {"on_wake_word", "on_frame", "on_tts_done",
           "check_conversation_timeout", "on_conversation_speech", "reset"}

\* <<from, event, to>>: the rows of the table; a frame in CAPTURING either
\* stays there or finalizes
TransitionTable ==
    {<<"IDLE", "on_wake_word", "CAPTURING">>,
     <<"CAPTURING", "on_frame", "CAPTURING">>,
     <<"CAPTURING", "on_frame", "IDLE">>,
     <<"IDLE", "on_tts_done", "CONVERSATION">>,
     <<"CAPTURING", "on_tts_done", "CONVERSATION">>,
     <<"CONVERSATION", "on_conversation_speech", "CAPTURING">>,
     <<"CONVERSATION", "check_conversation_timeout", "IDLE">>}
    \cup {<<s, "reset", "IDLE">> : s \in States}

ListedSource(s, op) == \E row \in TransitionTable : row[1] = s /\ row[2] = op

\* C11: every event causes at most the transition listed for its current
\* state, and an event whose current state is not a listed source state
\* (tts_done in CONVERSATION, conversation speech outside CONVERSATION) leaves
\* state, buffer and the conversation clock unchanged.
C11_ListedTransitionElseIgnored ==
    [][ ev'.op \in Events =>
          /\ state' # state => <<state, ev'.op, state'>> \in TransitionTable
          /\ ~ListedSource(state, ev'.op) =>
                UNCHANGED <<state, capture_buffer, conversation_start>> ]_vars

\* C13: once T_conv has elapsed since on_tts_done without speech, the state
\* returns to IDLE (at the timeout check), and a speech event arriving after
\* that expiry never moves the machine to CAPTURING: only a wake word does.
C13_NoFollowUpAfterExpiry ==
    [][ (state = "CONVERSATION" /\ ConversationExpired) =>
          /\ ev'.op = "check_conversation_timeout" => state' = "IDLE"
          /\ ev'.op = "on_conversation_speech" => state' # "CAPTURING" ]_vars

----------------------------------------------------------------------------
(* Properties of the decision loop, checked under SpecMain *)

\* the step handles a speech frame on which no wake word was detected
SpeechWithoutWakeWord == ev'.op \in {"frame", "on_frame"} /\ ev'.arg[2]

\* C12: after a completed turn (TTS done), a speech frame arriving within
\* T_conv makes the daemon enter CAPTURING without a wake word, with a fresh
\* empty capture buffer; the follow-up utterance is finalized on silence, sent
\* to the backend, and the state returns to IDLE.
C12_FollowUpWithoutWakeWord ==
    /\ [][ ( /\ tts_done_age # None
             /\ tts_done_age < CONVERSATION_TIMEOUT_S
             /\ SpeechWithoutWakeWord )
           => (state' = "CAPTURING" /\ capture_buffer' = <<>>) ]_vars
    /\ (state = "CAPTURING") ~> (SentToBackend # NoRet /\ state = "IDLE")

\* C14: utterance termination depends on wall time only: in CAPTURING an
\* on_frame call finalizes exactly when the wall time since the last
\* VAD-positive frame is at least T_silence, however many frames were
\* delivered or dropped in between; and while frames keep arriving and speech
\* stops, CAPTURING leads to IDLE.
C14_SilenceIsWallTime ==
    /\ [][ (ev'.op = "on_frame" /\ state = "CAPTURING") =>
             ( (ret' # NoRet /\ state' = "IDLE")
               <=> (~ev'.arg[2] /\ last_speech_time >= SILENCE_TIMEOUT_S) ) ]_vars
    /\ (state = "CAPTURING") ~> (state = "IDLE")

\* an utterance ended by the one frame delivered since the wake word
C14_Witness ==
    /\ SentToBackend # NoRet
    /\ Len(fed) = 1
    /\ state = "IDLE"
    /\ ev.arg[2] = FALSE

----------------------------------------------------------------------------
(* Properties of RingBuffer and AudioCapture, checked under SpecCapture *)

\* the last n elements of seq
LastN(seq, n) == SubSeq(seq, Len(seq) - n + 1, Len(seq))

\* C15: the ring buffer never holds more than K frames; appending to a full
\* buffer removes exactly the oldest frame, so the contents are always the
\* most recent min(K, number appended since the last drain/clear) frames in
\* append order.
C15_RingHoldsMostRecent ==
    /\ Len(ring) <= PREROLL_FRAMES
    /\ ring = LastN(appended, Min(PREROLL_FRAMES, since))

\* a frame was evicted from a buffer that had been drained or cleared before
C15_Witness ==
    /\ since = PREROLL_FRAMES + 1
    /\ Len(appended) = MaxEmit
    /\ Len(ring) = PREROLL_FRAMES

InRing(f) == \E k \in 1..Len(ring) : ring[k] = f

\* the bytes drain has handed out, the ones it is about to return included
Drained ==
    returned \o (IF cons_pc = "drain_return" THEN drain_data ELSE <<>>)

InDrained(f) == Range(f) \subseteq Range(Drained)

\* C16: drain is atomic with respect to a concurrent append: it returns the
\* buffered frames concatenated in temporal order and leaves the buffer
\* empty, and a frame appended concurrently is either wholly in the returned
\* bytes or wholly in the buffer afterwards, never lost and never in both.
C16_DrainIsAtomic ==
    /\ cons_pc = "drain_clear" => drain_data = Join(ring)
    /\ cons_pc = "drain_return" => ring = <<>>
    /\ Ascending(Drained)
    /\ \A f \in Range(appended) :
          /\ InRing(f) \/ InDrained(f) \/ f \in gone
          /\ ~(InRing(f) /\ InDrained(f))
          /\ Range(f) \cap Range(Drained) # {} => InDrained(f)

\* drain is about to return frames while the capture thread waits at the lock
\* with the next one
C16_Witness ==
    /\ cons_pc = "drain_return"
    /\ drain_data # <<>>
    /\ cap_pc = "append"
    /\ ring_lock = "main"

\* the frame the capture thread has sliced off and not yet appended
InFlight == IF cap_pc \in {"append", "append_do"} THEN 1 ELSE 0

InQueue(f) == \E k \in 1..Len(frame_queue) : frame_queue[k] = f

\* C17: every frame emitted by the capture thread is appended to the ring
\* buffer whether or not the frame queue is full; when the queue is full only
\* the queue copy of the newest frame is discarded, the frames already queued
\* are kept, and the drop counter increases by exactly one per dropped frame
\* and never decreases.
C17_RingAlwaysUpdatedQueueDropsNewest ==
    /\ [](appended = SubSeq(emitted, 1, Len(emitted) - InFlight))
    /\ [][ /\ drop_count' >= drop_count
           /\ drop_count' # drop_count => cap_pc = "put"
           /\ (cap_pc = "put" /\ cap_pc' # "put") =>
                 IF Len(frame_queue) >= QUEUE_MAXSIZE
                 THEN /\ frame_queue' = frame_queue
                      /\ drop_count' = drop_count + 1
                 ELSE /\ frame_queue' = Append(frame_queue, cap_frame)
                      /\ drop_count' = drop_count ]_vars

\* a frame dropped at the full queue sits in the ring
C17_Witness ==
    /\ drop_count = 1
    /\ cap_pc = "emit"
    /\ Len(frame_queue) = QUEUE_MAXSIZE
    /\ ~InQueue(cap_frame)
    /\ InRing(cap_frame)

\* the frames captured so far: emitted and past the ring's append
Captured == SubSeq(emitted, 1, Len(emitted) - InFlight)

\* C18: if the decision loop stalls while capture keeps running, the ring
\* buffer stays at K frames holding the K most recently captured frames, and
\* the first drain_preroll after the loop resumes returns exactly those K
\* frames in capture order.
C18_StallKeepsMostRecentPreroll ==
    /\ since >= PREROLL_FRAMES => ring = LastN(Captured, PREROLL_FRAMES)
    /\ (cons_pc = "drain_clear" /\ since >= PREROLL_FRAMES) =>
          drain_data = Join(LastN(Captured, PREROLL_FRAMES))

\* the consumer did nothing while every frame was captured and the queue
\* overflowed; its first call is a drain
C18_Witness ==
    /\ cons_pc = "drain_clear"
    /\ since = MaxEmit
    /\ delivered = <<>>
    /\ returned = <<>>
    /\ drop_count = MaxEmit - QUEUE_MAXSIZE
    /\ Len(drain_data) = PREROLL_FRAMES * TARGET_FRAME_BYTES

\* a is b with some elements left out
RECURSIVE IsSubsequence(_, _)
IsSubsequence(a, b) ==
    IF a = <<>> THEN TRUE
    ELSE IF b = <<>> THEN FALSE
    ELSE IF Head(a) = Head(b) THEN IsSubsequence(Tail(a), Tail(b))
    ELSE IsSubsequence(a, Tail(b))

\* C19: the frames returned by get_frame form a subsequence of the frames
\* emitted by the capture thread, in the same order: no frame is delivered
\* twice or out of capture order.
C19_DeliveredInCaptureOrder ==
    /\ IsSubsequence(delivered, emitted)
    /\ \A j, k \in 1..Len(delivered) : j # k => delivered[j] # delivered[k]

\* one frame was dropped at the full queue; the last one emitted was
\* delivered third
C19_Witness ==
    /\ Len(delivered) = 3
    /\ Len(emitted) = 4
    /\ delivered[3] = emitted[4]
    /\ drop_count = 1

\* the concatenation of all successful device reads
AllReads == Stream(0, n_read)

\* C20: every frame the capture thread emits has exactly F bytes, and the
\* emitted frames are the consecutive F-byte slices of the concatenation of
\* all successful device reads, whatever the read sizes: no byte is lost,
\* duplicated or reordered, and fewer than F bytes remain in the accumulator
\* after each read is processed.
C20_FramesAreSlicesOfReads ==
    /\ \A k \in 1..Len(emitted) :
          /\ Len(emitted[k]) = TARGET_FRAME_BYTES
          /\ emitted[k] = SubSeq(AllReads, (k - 1) * TARGET_FRAME_BYTES + 1,
                                 k * TARGET_FRAME_BYTES)
    /\ Join(emitted) \o accumulator = AllReads
    /\ cap_pc = "read" => Len(accumulator) < TARGET_FRAME_BYTES

\* one read completed two frames: the first is on its way to the ring, the
\* second still in the accumulator
C20_Witness ==
    /\ cap_pc = "append"
    /\ Len(accumulator) >= TARGET_FRAME_BYTES
    /\ Len(emitted) = 1

----------------------------------------------------------------------------
(* Properties of the daemon's start, checked under SpecStartup *)

\* C21: the connection attempt of startup never holds the decision loop
\* back: whenever captured frames wait in the queue while the attempt is
\* still unresolved (neither connected, failed nor timed out), the decision
\* loop is running and can take them.
C21_LoopRunsWhileConnecting ==
    (attempt = "pending" /\ frame_queue # <<>>) => bpc["main"] = "loop"

----------------------------------------------------------------------------
(* Properties of BackendClient, checked under SpecBackend *)

\* base64.b64decode
RECURSIVE b64decode(_)
b64decode(digits) ==
    IF Len(digits) < 2 THEN <<>>
    ELSE <<4 * digits[1] + digits[2]>> \o b64decode(Tail(Tail(digits)))

\* the PCM a reader finds in a WAV file: as many bytes as the header says
WavPayload(wav) ==
    IF wav # <<>> /\ Len(wav) = 1 + wav[1] THEN Tail(wav) ELSE <<>>

\* the events of utterance u, in the order they were emitted, and where
EventsOf(u) == SelectSeq(wire, LAMBDA e : e.utt = u)

PositionsOf(u) == {k \in 1..Len(wire) : wire[k].utt = u}

VoiceEvents == <<"voice:audio_start", "voice:audio_chunk", "voice:audio_end">>

\* the events of u are the first n of start, chunk (seq 0, the whole
\* utterance), end
EmittedInOrder(u, n) ==
    /\ Len(EventsOf(u)) = n
    /\ \A k \in 1..n : EventsOf(u)[k].name = VoiceEvents[k]
    /\ n >= 2 => /\ EventsOf(u)[2].seq = 0
                 /\ WavPayload(b64decode(EventsOf(u)[2].audio)) = handed[u]

\* C22: every utterance send_audio has shipped was emitted as exactly
\* voice:audio_start, one voice:audio_chunk with seq 0 whose audio decodes to
\* the whole utterance, voice:audio_end, in that order and next to each other
\* on the wire; an utterance being shipped has emitted a prefix of that.
C22_StartChunkEndPerUtterance ==
    /\ \A k \in 1..Len(reported) :
          /\ EmittedInOrder(reported[k], 3)
          /\ \A i, j \in PositionsOf(reported[k]) :
                \A x \in i..j : x \in PositionsOf(reported[k])
    /\ \A u \in 1..Len(handed) : \E n \in 0..3 : EmittedInOrder(u, n)

\* two different utterances were shipped, one after the other
C22_Witness ==
    /\ reported = <<1, 2>>
    /\ handed = <<<<2, 1>>, <<1>>>>
    /\ Len(wire) = 6

\* C23: an utterance handed to send_audio while _connected is false is
\* dropped on the spot: the call emits nothing and returns to the decision
\* loop, and no event of that utterance is ever emitted later; and whatever a
\* disconnect does to a send_audio under way, an utterance is logged as sent
\* only when all three of its events have been emitted.
C23_DroppedWhileDisconnected ==
    /\ [](/\ \A k \in 1..Len(refused) : EventsOf(refused[k]) = <<>>
          /\ \A k \in 1..Len(reported) : Len(EventsOf(reported[k])) = 3)
    /\ [][ /\ (handed' # handed /\ ~connected)
              => /\ refused' = Append(refused, Len(handed'))
                 /\ wire' = wire
                 /\ bpc'["main"] = "loop"
           /\ reported' # reported
              => /\ reported' = Append(reported, Len(handed))
                 /\ Len(EventsOf(Len(handed))) = 3 ]_vars

\* the first utterance was dropped; the second met a disconnect: two events
\* were emitted, the third emit raised, nothing was logged as sent
C23_Witness ==
    /\ refused = <<1>>
    /\ Len(EventsOf(2)) = 2
    /\ bpc["main"] = "exit"
    /\ reported = <<>>

\* the threads inside the locked part of _get_token
InGetToken == {t \in Threads : bpc[t] \in {"tok_test", "tok_post"}}

\* C24: a login request is made only when, at the time it is made, no token
\* is cached or the cached token is at least the refresh interval old; at
\* most one thread at a time is inside _get_token's locked part; and a
\* request that gets its answer caches a token that the callers after it use
\* without a request of their own while it is fresh.
C24_FetchOnlyWhenMissingOrStale ==
    /\ [](/\ \A k \in 1..Len(fetch_log) : ~fetch_log[k].fresh
          /\ Cardinality(InGetToken) <= 1
          /\ InGetToken # {} => InGetToken = {lock})
    /\ [][ /\ fetch_log' # fetch_log => ~CachedFresh
           /\ \A t \in Threads :
                 (bpc[t] = "tok_test" /\ bpc'[t] # "tok_test" /\ CachedFresh)
                    => fetch_log' = fetch_log ]_vars

\* the connection was lost and made again twice with a token that stayed
\* fresh: the one login request is that of startup
C24_Witness ==
    /\ reconnect_count = 3
    /\ Len(fetch_log) = 1
    /\ CachedFresh

----------------------------------------------------------------------------
(* Properties of the wake word detector in the decision loop (SpecMain) *)

\* the iteration just made finalized a capture
CaptureFinalized == ev.op = "on_frame" /\ ret # NoRet

\* C25 as stated: the iteration that detects the wake word and the iteration
\* that finalizes a capture both call the detector's reset.
C25_ResetAtEveryBoundary ==
    [][ /\ ev'.op = "on_wake_word" => ww_call' = "detect, reset"
        /\ CaptureFinalized' => ww_call' = "detect, reset" ]_vars

\* C25 as amended: the iteration that detects the wake word resets the
\* detector; from then until the capture is finalized the detector is fed
\* nothing, so at every boundary, and whenever the machine is not IDLE, the
\* model holds no history.
C25_NoHistoryAcrossBoundary ==
    /\ state # "IDLE" => ~ww_history
    /\ CaptureFinalized => ~ww_history
    /\ ev.op = "on_wake_word" => (ww_call = "detect, reset" /\ ~ww_history)

\* a capture has just been finalized by an iteration that made no call on
\* the detector, which holds no history
C25_Witness ==
    /\ CaptureFinalized
    /\ ww_call = "none"
    /\ ~ww_history
    /\ state = "IDLE"

----------------------------------------------------------------------------
(* Properties of CaptureStateMachine under two threads (SpecRace) *)

\* on_frame(frame, is_speech) run alone on the fields s: the fields it leaves
\* and what it returns
FrameAlone(s, frame, is_speech) ==
    IF s.state # "CAPTURING"
    THEN [state |-> s.state, buffer |-> s.buffer, ret |-> NoRet]
    ELSE IF (IF is_speech THEN 0 ELSE s.last_speech_time) >= SILENCE_TIMEOUT_S
         THEN [state |-> "IDLE", buffer |-> <<>>,
               ret |-> <<Join(Append(s.buffer, frame))>>]
         ELSE [state |-> "CAPTURING", buffer |-> Append(s.buffer, frame),
               ret |-> NoRet]

\* the two sequential orders of on_frame and on_tts_done from the fields s
Linearizations(s, args) ==
    { [FrameAlone(s, args[1], args[2]) EXCEPT !.state = "CONVERSATION"],
      FrameAlone([s EXCEPT !.state = "CONVERSATION"], args[1], args[2]) }

\* C26: when on_tts_done and on_frame have run at the same time and both have
\* returned, the state, the buffer and the bytes on_frame returned are those
\* of one of the two sequential orders; in particular the state is
\* CONVERSATION.
C26_TtsDoneDuringOnFrameLinearizable ==
    outcome # NoOutcome
        => [state |-> outcome.state, buffer |-> outcome.buffer,
            ret |-> outcome.ret] \in Linearizations(outcome.snap, outcome.args)

----------------------------------------------------------------------------
(* Properties of AudioPlayer's threads, checked under SpecPlayer *)

\* C27: a step that sends the mixer a command or writes _mic_muted_at is a
\* step of the playback thread: no step of stop() (the caller's thread) and
\* no step of the enqueuing thread does either.
C27_OnlyPlaybackThreadMutes ==
    [][ (stop_pc' # stop_pc \/ n_enq' # n_enq)
        => /\ mixer' = mixer
           /\ unmutes' = unmutes
           /\ mic_muted_at' = mic_muted_at ]_vars

----------------------------------------------------------------------------
(* Properties of the playback device, checked under SpecChime *)

\* the playback thread wrote nothing between two periods of the chime
ChimeInOnePiece ==
    \A i, j \in 1..Len(chime_log) : chime_log[i] = chime_log[j]

\* no period of the chime was written after TTS chunk 0
ChimeBeforeChunkZero ==
    \A i \in 1..Len(chime_log) : 0 \notin Range(chime_log[i].tts)

\* C28: every period that reaches the playback device is written by a step
\* of the playback thread; the periods of the chime and those of a TTS chunk
\* are not interleaved; and the whole chime is on the device before the first
\* period of TTS chunk 0.
C28_DeviceOwnedByPlaybackThread ==
    /\ [](ChimeInOnePiece /\ ChimeBeforeChunkZero)
    /\ [][ chime_log' # chime_log
           => (pc' # pc \/ next_index' # next_index) ]_vars

----------------------------------------------------------------------------
(* Properties of the sentinel branch of the playback loop (SpecPlayer) *)

\* C29: when the loop is about to invoke on_playback_done, playing is clear,
\* the cursor is 0, the out-of-order map is empty and the mic has been
\* unmuted; the callback has been invoked once for every sentinel processed
\* before; and after the callback, whether it returned or raised, the loop
\* goes on from its top with the cursor at 0, the callback counted once.
C29_SentinelResetsThenCallsBackOnce ==
    /\ [](/\ pc = "callback"
             => /\ ~playing
                /\ next_index = 0
                /\ pending = EmptyMap
                /\ ~MicMuted
                /\ mic_muted_at = None
          /\ callbacks = sentinels - (IF pc = "callback" THEN 1 ELSE 0))
    /\ [][ /\ (pc = "callback" /\ pc' # "callback")
              => /\ pc' = "loop"
                 /\ next_index' = 0
                 /\ callbacks' = callbacks + 1
           /\ callbacks' # callbacks
              => (pc = "callback" /\ callbacks' = sentinels) ]_vars

\* the callback of the first session raised; the loop went on and has written
\* chunk 0 of the next session
C29_Witness ==
    /\ callbacks = 1
    /\ cb_raised
    /\ sentinels = 1
    /\ written = <<0>>
    /\ pc = "play"

----------------------------------------------------------------------------
(* Properties of a session with undecodable chunks (SpecSession) *)

\* the chunks of the session whose decoding fails
Undecodable == {i \in SentIndices : ~SessionDecodes(i)}

\* C30: a chunk whose decoding fails is passed by the cursor without a device
\* write; when the sentinel is reached every chunk of the session that decodes
\* has been written, the ones after a failed chunk included, in index order;
\* and once the sentinel has been processed the mic is unmuted.
C30_FailedDecodeSkippedSessionCompletes ==
    /\ dropped \subseteq Undecodable
    /\ Range(written) \cap Undecodable = {}
    /\ \A i \in dropped : next_index > i
    /\ AtSentinel => /\ dropped = Undecodable
                     /\ Range(written) = SentIndices \ Undecodable
                     /\ Ascending(written)
                     /\ next_index = item[1]
    /\ pc \in {"finally", "callback"} => (~MicMuted /\ mic_muted_at = None)

\* chunk 1 of three failed to decode: 0 and 2 were written, the sentinel is
\* being processed with the mic still muted
C30_Witness ==
    /\ AtSentinel
    /\ dropped = {1}
    /\ written = <<0, 2>>
    /\ MicMuted

----------------------------------------------------------------------------
(* Properties of the capture thread's life (SpecCaptureLoop) *)

\* a device read has just returned or raised
ReadEnded == cap_reading /\ ~cap_reading'

\* C31: the capture thread has left its loop only if the stop flag is set;
\* a read that signals an overrun adds one to the overrun counter and the
\* loop goes on, an empty read and a read that raises change nothing and the
\* loop goes on (a raise with the stop flag set ends it); once the stop flag
\* is set no further read is begun, and the thread leaves the loop.
C31_ExitsOnlyOnStop ==
    /\ [](cap_pc = "exited" => cap_stop_event)
    /\ [][ /\ (ReadEnded /\ read_result' = "overrun")
              => /\ overrun_count' = overrun_count + 1
                 /\ cap_pc' = "read"
                 /\ accumulator' = accumulator
           /\ (ReadEnded /\ read_result' \in {"empty", "error"})
              => /\ overrun_count' = overrun_count
                 /\ accumulator' = accumulator
                 /\ cap_pc' = IF read_result' = "error" /\ cap_stop_event
                              THEN "exited" ELSE "read"
           /\ (cap_stop_event /\ ~cap_reading) => ~cap_reading'
           /\ cap_pc = "exited" => cap_pc' = "exited" ]_vars
    /\ cap_stop_event ~> (cap_pc = "exited")

\* the thread has left its loop after an overrun, a read that raised and
\* frames emitted; stop() was called while it was inside a read of data
C31_Witness ==
    /\ cap_pc = "exited"
    /\ overrun_count = MaxOverruns
    /\ emitted # <<>>
    /\ read_result = "data"
    /\ ~cap_started

----------------------------------------------------------------------------
(* Properties of main()'s end (SpecShutdown) *)

\* C32: when main has ended, after the shutdown flag or after a fatal
\* exception, its finally block has disconnected the backend, then stopped
\* the capture, then stopped the player, in that order.
C32_DisconnectStopCaptureStopPlayer ==
    bpc["main"] = "ended"
       => teardown = <<"backend.disconnect", "capture.stop", "player.stop">>

----------------------------------------------------------------------------
(* Properties of the health monitor (SpecHealth) *)

\* a wait of the health thread has just timed out
Ticked == ticks' = ticks + 1

\* the health thread has just made its stale test
Checked == health_pc = "check" /\ health_pc' = "wait"

\* C33: a tick that finds the client connected emits voice:ping and goes on
\* to the stale test, a tick that finds it disconnected emits nothing; the
\* stale test warns exactly when a pong has been received and the last one
\* is more than BACKEND_PING_TIMEOUT_S old; the thread ends only with the
\* shutdown event set, and once it is set the thread ends.
C33_PingWhileConnectedWarnWhenStale ==
    /\ [](health_pc = "exited" => shutdown_event)
    /\ [][ /\ (Ticked /\ connected) => (pings' = pings + 1 /\ health_pc' = "check")
           /\ (Ticked /\ ~connected) => (pings' = pings /\ health_pc' = "wait")
           /\ pings' # pings => (Ticked /\ connected)
           /\ Checked
              => (tick_warned' <=> (last_pong_time # None
                                    /\ last_pong_time > BACKEND_PING_TIMEOUT_S))
           /\ tick_warned' # tick_warned => Checked
           /\ health_pc = "exited" => health_pc' = "exited" ]_vars
    /\ (shutdown_event /\ health_pc # "none") ~> (health_pc = "exited")

\* the tick just made found the client connected and the last pong exactly
\* BACKEND_PING_TIMEOUT_S old, and did not warn; an earlier tick was
\* skipped while disconnected
C33_Witness ==
    /\ health_pc = "wait"
    /\ since_tick = 0
    /\ tick_connected
    /\ last_pong_time = BACKEND_PING_TIMEOUT_S
    /\ ~tick_warned
    /\ pings < ticks

----------------------------------------------------------------------------
(* Properties of the token refresh at a reconnect (SpecBackend) *)

\* thread t has just made a login request that failed
RefreshFailed(t) ==
    /\ bpc[t] = "tok_post"
    /\ bpc'[t] # "tok_post"
    /\ token' = token

\* C34: a login request that fails inside a connect handler leaves
\* _connected, the cached token and its acquisition time as they were, and
\* the handler goes on to count the reconnect, which adds one to the count;
\* and every connect handler after the first connect calls _get_token, which
\* makes the request whenever the cached token is missing or stale: the
\* refresh is tried again at the next reconnect.
C34_FailedRefreshIsNotFatal ==
    [][ \A h \in Handlers :
          /\ RefreshFailed(h)
             => /\ connected' = connected
                /\ token_acquired_at' = token_acquired_at
                /\ bpc'[h] = "oc_count"
          /\ (bpc[h] = "oc_count" /\ bpc'[h] # "oc_count")
             => reconnect_count' = reconnect_count + 1
          /\ (bpc[h] = "oc_test" /\ bpc'[h] # "oc_test" /\ reconnect_count > 0)
             => bpc'[h] = "tok_lock"
          /\ (bpc[h] = "tok_test" /\ bpc'[h] # "tok_test" /\ ~CachedFresh)
             => bpc'[h] = "tok_post" ]_vars

\* the token of startup went stale; the refresh failed at one reconnect and
\* failed again at the next: the client is connected with the old token and
\* both reconnects were counted
C34_Witness ==
    /\ Len(fetch_log) = 3
    /\ fetch_log[2].by \in Handlers
    /\ fetch_log[3].by \in Handlers
    /\ token = 1
    /\ ~CachedFresh
    /\ connected
    /\ reconnect_count = 3

----------------------------------------------------------------------------
(* Properties of the display daemon (SpecDisplay) *)

\* C35: in camera mode every mpv window is mapped and no Chromium launched
\* by the daemon is running, after any sequence of requests in which no
\* xdotool command has failed (Chromium may have failed to start).
C35_CameraModeShowsCameras ==
    (display_mode = "camera" /\ ~xdotool_failed)
       => (mpv_visible = MpvWindows /\ chromium_proc # "running")

----------------------------------------------------------------------------
(* Properties of the capture thread and the decision loop (SpecPipeline) *)

\* the utterance the iteration just made handed to the backend, or <<>>
Utterance == IF ev.op = "on_frame" /\ ret # NoRet THEN ret[1] ELSE <<>>

\* C36: no captured frame appears twice in a finalized utterance: the bytes
\* of the pre-roll drained at the wake word and of the frames delivered
\* afterwards are all different, also when frames were still queued at the
\* moment of the wake word.
C36_NoFrameTwice ==
    \A j, k \in 1..Len(Utterance) : Utterance[j] = Utterance[k] => j = k

----------------------------------------------------------------------------
(* Properties of the microphone during playback (SpecPlayer) *)

\* mic-muted-at is present and the last mixer command was a mute
MutedForPlayback == mic_muted_at # None /\ mixer = "nocap"

\* speaker.py:336-337  this step writes the PCM of a TTS chunk to the device
DeviceWrite == Len(written') > Len(written)

----------------------------------------------------------------------------
(* Properties of the player over two TTS sessions (SpecSessions) *)

\* the chunk buffered under key i belongs to session s and decodes
BufferedOf(s, i) ==
    /\ i \in DOMAIN pending
    /\ SessionOf(pending[i][1]) = s
    /\ DecodeToPcm(pending[i][1]) # <<>>

\* this step writes the chunk buffered under key i
WritesKey(i) == DeviceWrite /\ i = PlayKey

\* this step takes the chunk under key i out of the buffer, or replaces it
LeavesBuffer(i) == i \notin DOMAIN pending' \/ pending'[i] # pending[i]

\* C38: TTS sessions are isolated in the player: a chunk is written only
\* during its own session (between the sentinels that delimit it), and no
\* chunk of the second session leaves the buffer without being written,
\* whatever the first session's late chunks and sentinel do.
C38_SessionsIsolated ==
    [][ /\ DeviceWrite => SessionOf(pending[PlayKey][1]) = sentinels + 1
        /\ \A i \in 0..(SessionChunks - 1) :
               (BufferedOf(2, i) /\ LeavesBuffer(i)) => WritesKey(i) ]_vars

----------------------------------------------------------------------------
(* Properties of mic-muted-at against the mixer (SpecPlayer) *)

\* a thread is inside _mute_mic or _unmute_mic: the amixer command has run,
\* the field is not yet assigned
MuteInProgress ==
    \/ pc \in {"mute_set", "safety_unmute_set", "sentinel_unmute_set"}
    \/ stop_pc = "unmute_set"

\* C39: whenever neither _mute_mic nor _unmute_mic is in progress,
\* mic-muted-at is present if and only if the last mixer command was a mute,
\* for every interleaving of the playback thread with stop().
C39_MutedAtTracksMixer ==
    ~MuteInProgress => (mic_muted_at # None <=> mixer = "nocap")

----------------------------------------------------------------------------
(* Properties of a capture that follows an abandoned one (SpecSM) *)

\* C40: once a capture has been abandoned with frames in its buffer (by
\* on_tts_done during CAPTURING, with or without the conversation timeout
\* after it, or by reset), the buffer of a later capture holds only that
\* capture's pre-roll and frames, and the utterance it finalizes is exactly
\* those bytes: nothing the abandoned capture buffered appears in it.
C40_NoFramesOfAbandonedCapture ==
    abandoned =>
        /\ state = "CAPTURING" => Join(capture_buffer) = fed
        /\ JustFinalized => ret[1] = fed

\* an utterance is finalized after an earlier capture was abandoned
C40_Witness == abandoned /\ JustFinalized /\ Len(ret[1]) >= 2

====
